---- MODULE Spec2Model ----
(***************************************************************************)
(* Model of the CSV ingestion pipeline of the maternal / child health      *)
(* tracker: upload validation, the queued-or-synchronous decision, the     *)
(* per-row processing loops of the upload routes and of the Bull job       *)
(* processors, the retry policy, temporary-file cleanup and the cache      *)
(* invalidation protocol.                                                  *)
(***************************************************************************)
EXTENDS Integers, Sequences, FiniteSets, TLC

(***************************************************************************)
(* Bounds of the model.                                                    *)
(***************************************************************************)
\* longest file (number of data rows) an upload draws in SpecRows
MaxRows == 2
\* number of upload requests of one behaviour of Spec
MaxReqs == 1

\* requests of the specifications that run or repeat batches side by side
PairReqs == 2
\* seconds one Tick of the clock advances
TickSeconds == 100
\* the clock stops advancing after this many ticks
MaxTicks == 4
\* the longest file content, in lines, that is written out line by line
MaxLines == 3

(***************************************************************************)
(* Program constants.                                                      *)
(***************************************************************************)
\* defaultJobOptions.attempts
Attempts == 3
\* errors.slice(0, 10)
ErrorCap == 10

\* Bull's default for settings.maxStalledCount of a queue created without
\* settings: how often a stalled job is put back before it is failed
MaxStalledCount == 1
\* cache.set(cacheKey, response, 300)
ListTtl == 300
\* default ttlSeconds of cache.set
DefaultTtl == 3600

Types == {"maternal", "pediatric"}

(***************************************************************************)
(* CSV cells are strings; an absent column and an empty cell are both      *)
(* falsy in the required-field test, every other string is truthy.         *)
(***************************************************************************)
Falsy(s) == s = ""

\* parseInt on the cells the model uses; NaN for anything that is no number
NaN == [nan |-> TRUE, n |-> 0]

Num(k) == [nan |-> FALSE, n |-> k]

ParseInt(s) ==
  CASE s = "30" -> Num(30)
    [] s = "80" -> Num(80)
    [] s = "0" -> Num(0)
    [] s = "150" -> Num(150)
    [] s = "36" -> Num(36)
    [] OTHER -> NaN

\* parseInt(x) || 0 : NaN and 0 are falsy
OrZero(v) == IF v.nan \/ v.n = 0 THEN 0 ELSE v.n

\* String.prototype.toLowerCase on the level cells the model uses
ToLowerCase(s) ==
  CASE s = "High" -> "high"
    [] s = "LOW" -> "low"
    [] s = "Severe" -> "severe"
    [] OTHER -> s

\* String.prototype.trim on the risk-factor items the model uses
Trim(s) ==
  CASE s = " dm" -> "dm"
    [] s = "htn " -> "htn"
    [] OTHER -> s

\* row.risk_factors.split(',').map(f => f.trim()); the cell is kept as the
\* sequence of its comma-separated items
SplitTrim(cell) == [i \in 1..Len(cell) |-> Trim(cell[i])]

\* the cell text of risk_factors is falsy exactly when it is the empty string
RfFalsy(cell) == cell = <<>>

Noun(type) == IF type = "maternal" THEN "patient" ELSE "child"

\* !row.patient_id || !row.name || !row.age || !row.risk_factors   (maternal)
\* !row.child_id || !row.name || !row.risk_factors                 (pediatric)
MissingRequired(type, row) ==
  IF type = "maternal"
  THEN Falsy(row.id) \/ Falsy(row.name) \/ Falsy(row.age) \/ RfFalsy(row.risk_factors)
  ELSE Falsy(row.id) \/ Falsy(row.name) \/ RfFalsy(row.risk_factors)

\* a variant that interpolates row.patient_id without the || 'unknown'
MissingMsgNoFallback(type, row) ==
  <<"Missing required fields for", Noun(type), row.id>>

\* `Missing required fields for patient ${row.patient_id || 'unknown'}`
MissingMsg(type, row) ==
  <<"Missing required fields for", Noun(type), IF Falsy(row.id) THEN "unknown" ELSE row.id>>

\* `Error processing patient ${row.patient_id}: ${error.message}`
ErrorMsg(type, row, message) ==
  <<"Error processing", Noun(type), row.id, message>>

\* !row.risk_score || !row.risk_level
NeedsScorer(row) == Falsy(row.risk_score) \/ Falsy(row.risk_level)

(***************************************************************************)
(* A row of a parsed file: the cells the loops read, and the behaviour of  *)
(* the collaborators while that row is processed (what the scorer does     *)
(* when it is called, whether the store write and the job.progress update  *)
(* raise). Two runs over the same file see the same behaviour.             *)
(***************************************************************************)
Row(id, name, age, rf, score, level, scorer, store, progress) ==
  [id |-> id, name |-> name, age |-> age, risk_factors |-> rf,
   risk_score |-> score, risk_level |-> level, last_updated |-> "",
   birth_weight |-> "", gestation_weeks |-> "",
   scorer |-> scorer, store |-> store, progress |-> progress]

\* what predictMaternalRisk / predictPediatricRisk answers: the model's
\* prediction, or the service's own fallback heuristic
Prediction(outcome) ==
  IF outcome = "model"
  THEN [riskScore |-> 72, riskLevel |-> "high"]
  ELSE [riskScore |-> 50, riskLevel |-> "medium"]

\* a variant that keeps the defaults computed from the cells and drops the
\* prediction
ResolveRiskKeepsDefaults(row) ==
  [riskScore |-> OrZero(ParseInt(row.risk_score)),
   riskLevel |-> IF Falsy(ToLowerCase(row.risk_level))
                 THEN "medium" ELSE ToLowerCase(row.risk_level)]

\* a variant that takes the scorer's answer for every row
ResolveRiskAlwaysPredicts(row) == Prediction(row.scorer)

\* let riskScore = parseInt(row.risk_score) || 0;
\* let riskLevel = row.risk_level?.toLowerCase() || 'medium';
\* overwritten by the prediction when the scorer is called
ResolveRisk(row) ==
  IF NeedsScorer(row)
  THEN Prediction(row.scorer)
  ELSE [riskScore |-> OrZero(ParseInt(row.risk_score)),
        riskLevel |-> IF Falsy(ToLowerCase(row.risk_level))
                      THEN "medium" ELSE ToLowerCase(row.risk_level)]

\* new Date(string): times are seconds on the model's clock, so a date before
\* the server started is negative; a string that is no date gives Invalid Date
ParseDate(s) == IF s = "2024-01-01" THEN -1 ELSE -2

\* a variant that stamps every record with the time of ingestion
LastUpdatedAlwaysNow(row, now) == now

\* new Date(row.last_updated || new Date())
LastUpdated(row, now) ==
  IF Falsy(row.last_updated) THEN now ELSE ParseDate(row.last_updated)

\* the object handed to createOrUpdateMaternalPatient / ...PediatricPatient
BuildRecord(type, row, now) ==
  LET risk == ResolveRisk(row) IN
  IF type = "maternal"
  THEN [key |-> row.id, name |-> row.name, age |-> ParseInt(row.age),
        riskScore |-> risk.riskScore, riskLevel |-> risk.riskLevel,
        riskFactors |-> SplitTrim(row.risk_factors),
        lastUpdated |-> LastUpdated(row, now)]
  ELSE [key |-> row.id, name |-> row.name,
        birthWeight |-> IF Falsy(row.birth_weight) THEN "undefined" ELSE row.birth_weight,
        gestationWeeks |-> IF Falsy(row.gestation_weeks)
                           THEN NaN ELSE ParseInt(row.gestation_weeks),
        riskScore |-> risk.riskScore, riskLevel |-> risk.riskLevel,
        riskFactors |-> SplitTrim(row.risk_factors),
        lastUpdated |-> LastUpdated(row, now)]

\* memoryStore.createOrUpdate...: create if absent, replace if present.
\* A store holds its records by identity key and counts the writes made to it.
Upsert(store, rec) ==
  [recs |-> [k \in DOMAIN store.recs \cup {rec.key} |->
               IF k = rec.key THEN rec ELSE store.recs[k]],
   writes |-> store.writes + 1]

EmptyStore == [recs |-> <<>>, writes |-> 0]

(***************************************************************************)
(* The store keeps its records in memory and persists them to a JSON file  *)
(* per collection. The writes to that file are not serialized: a write     *)
(* that starts while another is in flight races with it, and the file then *)
(* holds the content of one of them or a mix of both that no longer        *)
(* parses.                                                                 *)
(***************************************************************************)
EmptyDisk == [content |-> [parses |-> TRUE, recs |-> <<>>], inflight |-> <<>>, raced |-> {}]

TornContent == [parses |-> FALSE, recs |-> <<>>]

\* request r's store call starts writing the records to the file
StartWrite(d, r, recs) ==
  [content |-> d.content,
   inflight |-> [w \in DOMAIN d.inflight \cup {r} |->
                   IF w = r THEN recs ELSE d.inflight[w]],
   raced |-> IF DOMAIN d.inflight \ {r} # {}
             THEN d.raced \cup DOMAIN d.inflight \cup {r}
             ELSE d.raced \ {r}]

\* the write of request r ends: its content is in the file, or, when it
\* raced with another write, possibly a mix
EndWrite(d, r, torn) ==
  [content |-> IF torn THEN TornContent ELSE [parses |-> TRUE, recs |-> d.inflight[r]],
   inflight |-> [w \in DOMAIN d.inflight \ {r} |-> d.inflight[w]],
   raced |-> d.raced \ {r}]

\* the accumulators of one run of a row loop, with the store it writes
NewAcc(store) ==
  [successCount |-> 0, errors |-> <<>>, store |-> store,
   progress |-> [num |-> 0, den |-> 1], calls |-> <<>>]

\* !.errors.push(message)
PushError(acc, message) == [acc EXCEPT !.errors = Append(@, message)]

\* the awaited calls of a run, in the order they are made: the scorer
\* ("predict"), the store ("upsert"), job.progress ("progress"), each with
\* the row it is made for
Called(acc, op, row) == [acc EXCEPT !.calls = Append(@, [op |-> op, row |-> row])]

\* the scorer is called only inside if (!row.risk_score || !row.risk_level)
Scored(acc, row) == IF NeedsScorer(row) THEN Called(acc, "predict", row) ELSE acc

(***************************************************************************)
(* One iteration of the row loop of the upload routes (synchronous path).  *)
(***************************************************************************)
\* a variant in which a scorer that answers with its fallback fails the row
SyncRowStepSurfacesFallback(type, row, acc, now) ==
  IF MissingRequired(type, row)
  THEN PushError(acc, MissingMsg(type, row))
  ELSE IF NeedsScorer(row) /\ row.scorer # "model"
  THEN PushError(Scored(acc, row), ErrorMsg(type, row, "scorer"))
  ELSE IF row.store = "throw"
  THEN PushError(Called(Scored(acc, row), "upsert", row), ErrorMsg(type, row, "store"))
  ELSE [Called(Scored(acc, row), "upsert", row) EXCEPT
          !.store = Upsert(@, BuildRecord(type, row, now)),
          !.successCount = @ + 1]

\* a variant that counts a row whose store call raised as a success
SyncRowStepCountsStoreFailure(type, row, acc, now) ==
  IF MissingRequired(type, row)
  THEN PushError(acc, MissingMsg(type, row))
  ELSE IF NeedsScorer(row) /\ row.scorer = "throw"
  THEN PushError(Scored(acc, row), ErrorMsg(type, row, "scorer"))
  ELSE IF row.store = "throw"
  THEN [PushError(Called(Scored(acc, row), "upsert", row), ErrorMsg(type, row, "store"))
          EXCEPT !.successCount = @ + 1]
  ELSE [Called(Scored(acc, row), "upsert", row) EXCEPT
          !.store = Upsert(@, BuildRecord(type, row, now)),
          !.successCount = @ + 1]

SyncRowStep(type, row, acc, now) ==
  IF MissingRequired(type, row)
  THEN PushError(acc, MissingMsg(type, row))
  ELSE IF NeedsScorer(row) /\ row.scorer = "throw"
  THEN PushError(Scored(acc, row), ErrorMsg(type, row, "scorer"))
  ELSE IF row.store = "throw"
  THEN PushError(Called(Scored(acc, row), "upsert", row), ErrorMsg(type, row, "store"))
  ELSE [Called(Scored(acc, row), "upsert", row) EXCEPT
          !.store = Upsert(@, BuildRecord(type, row, now)),
          !.successCount = @ + 1]

\* a variant of the job's iteration that counts the row only once
\* job.progress has returned
JobRowStepCountsAfterProgress(type, row, acc, total, now) ==
  IF MissingRequired(type, row)
  THEN PushError(acc, MissingMsg(type, row))
  ELSE IF NeedsScorer(row) /\ row.scorer = "throw"
  THEN PushError(acc, ErrorMsg(type, row, "scorer"))
  ELSE IF row.store = "throw"
  THEN PushError(acc, ErrorMsg(type, row, "store"))
  ELSE LET stored == [acc EXCEPT !.store = Upsert(@, BuildRecord(type, row, now))]
       IN IF row.progress = "throw"
          THEN PushError(stored, ErrorMsg(type, row, "progress"))
          ELSE [stored EXCEPT !.successCount = @ + 1,
                              !.progress = [num |-> (acc.successCount + 1) * 100,
                                            den |-> total]]

\* a variant of the job's iteration that leaves a key alone once it is stored
JobRowStepKeepsFirst(type, row, acc, total, now) ==
  IF MissingRequired(type, row)
  THEN PushError(acc, MissingMsg(type, row))
  ELSE IF NeedsScorer(row) /\ row.scorer = "throw"
  THEN PushError(Scored(acc, row), ErrorMsg(type, row, "scorer"))
  ELSE IF row.store = "throw"
  THEN PushError(Called(Scored(acc, row), "upsert", row), ErrorMsg(type, row, "store"))
  ELSE LET done == Called([Called(Scored(acc, row), "upsert", row) EXCEPT
                             !.store = IF row.id \in DOMAIN @.recs
                                       THEN [@ EXCEPT !.writes = @ + 1]
                                       ELSE Upsert(@, BuildRecord(type, row, now)),
                             !.successCount = @ + 1],
                          "progress", row)
       IN IF row.progress = "throw"
          THEN PushError(done, ErrorMsg(type, row, "progress"))
          ELSE [done EXCEPT !.progress = [num |-> done.successCount * 100, den |-> total]]

(***************************************************************************)
(* One iteration of the row loop of the job processors (queued path): the  *)
(* same, followed by job.progress((successCount / data.length) * 100)      *)
(* inside the row's try block.                                             *)
(***************************************************************************)
JobRowStep(type, row, acc, total, now) ==
  IF MissingRequired(type, row)
  THEN PushError(acc, MissingMsg(type, row))
  ELSE IF NeedsScorer(row) /\ row.scorer = "throw"
  THEN PushError(Scored(acc, row), ErrorMsg(type, row, "scorer"))
  ELSE IF row.store = "throw"
  THEN PushError(Called(Scored(acc, row), "upsert", row), ErrorMsg(type, row, "store"))
  ELSE LET done == Called([Called(Scored(acc, row), "upsert", row) EXCEPT
                             !.store = Upsert(@, BuildRecord(type, row, now)),
                             !.successCount = @ + 1],
                          "progress", row)
       IN IF row.progress = "throw"
          THEN PushError(done, ErrorMsg(type, row, "progress"))
          ELSE [done EXCEPT !.progress = [num |-> done.successCount * 100, den |-> total]]

\* a variant that returns the whole list
SliceWhole(errors, cap) == errors

\* errors.slice(0, 10)
Slice(errors, cap) == [i \in 1..(IF Len(errors) < cap THEN Len(errors) ELSE cap) |-> errors[i]]

\* a variant that answers a batch without a single success as an error
SyncSummaryErrorWhenNoneSucceeds(data, acc) ==
  IF Len(data) > 0 /\ acc.successCount = 0
  THEN [success |-> FALSE, error |-> "No record could be processed"]
  ELSE [success |-> TRUE,
        recordsProcessed |-> Len(data),
        recordsSuccess |-> acc.successCount,
        recordsFailed |-> Len(data) - acc.successCount,
        errors |-> IF Len(acc.errors) > 0
                   THEN [defined |-> TRUE, list |-> Slice(acc.errors, ErrorCap)]
                   ELSE [defined |-> FALSE, list |-> <<>>]]

\* the body of the synchronous response:
\* errors: errors.length > 0 ? errors.slice(0, 10) : undefined
SyncSummary(data, acc) ==
  [success |-> TRUE,
   recordsProcessed |-> Len(data),
   recordsSuccess |-> acc.successCount,
   recordsFailed |-> Len(data) - acc.successCount,
   errors |-> IF Len(acc.errors) > 0
              THEN [defined |-> TRUE, list |-> Slice(acc.errors, ErrorCap)]
              ELSE [defined |-> FALSE, list |-> <<>>]]

\* a variant that reports errors.length as recordsFailed
JobSummaryErrorsCounted(data, acc) ==
  [success |-> TRUE,
   recordsProcessed |-> Len(data),
   recordsSuccess |-> acc.successCount,
   recordsFailed |-> Len(acc.errors),
   errors |-> [defined |-> TRUE, list |-> Slice(acc.errors, ErrorCap)]]

\* the value the job processor returns
JobSummary(data, acc) ==
  [success |-> TRUE,
   recordsProcessed |-> Len(data),
   recordsSuccess |-> acc.successCount,
   recordsFailed |-> Len(data) - acc.successCount,
   errors |-> [defined |-> TRUE, list |-> Slice(acc.errors, ErrorCap)]]

\* the row loop of either path run to its end over data[i..], from acc
RECURSIVE SyncLoop(_, _, _, _, _)
SyncLoop(type, data, i, acc, now) ==
  IF i > Len(data) THEN acc
  ELSE SyncLoop(type, data, i + 1, SyncRowStep(type, data[i], acc, now), now)

RECURSIVE JobLoop(_, _, _, _, _)
JobLoop(type, data, i, acc, now) ==
  IF i > Len(data) THEN acc
  ELSE JobLoop(type, data, i + 1, JobRowStep(type, data[i], acc, Len(data), now), now)

(***************************************************************************)
(* Uploaded files. validateUploadedFile looks at the number of non-blank   *)
(* lines and at the delimiters of the first one. Papa.parse is given the   *)
(* content as a string: it calls complete with { data, errors, meta },     *)
(* where errors lists the rows it could not tokenize (an unterminated      *)
(* quote, a wrong number of fields) and data still holds a row for each of *)
(* them; parseErrors is whether that list is non-empty. The error callback *)
(* belongs to the reading of files and streams; parses is FALSE for a      *)
(* content on which the call throws, which rejects the promise just the    *)
(* same.                                                                   *)
(***************************************************************************)
CsvFile(rows) ==
  [lines |-> 1 + Len(rows), delim |-> TRUE, parses |-> TRUE, parseErrors |-> FALSE,
   rows |-> rows]

HeaderOnlyFile ==
  [lines |-> 1, delim |-> TRUE, parses |-> TRUE, parseErrors |-> FALSE, rows |-> <<>>]

NoDelimiterFile ==
  [lines |-> 2, delim |-> FALSE, parses |-> TRUE, parseErrors |-> FALSE, rows |-> <<>>]

UnparsableFile ==
  [lines |-> 2, delim |-> TRUE, parses |-> FALSE, parseErrors |-> FALSE, rows |-> <<>>]

(***************************************************************************)
(* The cache (utils/redis): keys are kept as their ':'-separated segments. *)
(***************************************************************************)
\* cacheKeys.patients.maternal / .pediatric (page, limit, filters)
ListKey(type, page) == <<"patients", type, page, "50", "{}">>

\* cacheKeys.dashboard(), .insights(), .trends()
AggregateKeys == {<<"dashboard", "stats">>, <<"analytics", "insights">>, <<"analytics", "trends">>}

\* a variant that compares the first segment only
GlobMatchFirstSegment(pattern, key) == key[1] = pattern[1]

\* redis KEYS with a pattern whose last segment is '*': the key starts with
\* the text before the star
GlobMatch(pattern, key) ==
  /\ Len(key) >= Len(pattern)
  /\ \A i \in 1..(Len(pattern) - 1) : key[i] = pattern[i]

Restrict(f, keep) == [k \in keep |-> f[k]]

\* a variant that answers from the keys it holds whatever the flag and the
\* backend
CacheGetIgnoresBackend(cache, key, flag, up) ==
  IF key \in DOMAIN cache THEN cache[key] ELSE [miss |-> TRUE]

\* cache.get: null when the flag is down, when redis raises, or on a miss
CacheGet(cache, key, flag, up) ==
  IF flag /\ up /\ key \in DOMAIN cache THEN cache[key] ELSE [miss |-> TRUE]

\* a variant that stores every key with the default ttl of 3600 s
CacheSetDefaultTtl(cache, key, value, ttlSeconds, flag, up, stamp) ==
  IF flag /\ up
  THEN [k \in DOMAIN cache \cup {key} |->
          IF k = key
          THEN [val |-> value, ttl |-> DefaultTtl, age |-> 0, epoch |-> stamp]
          ELSE cache[k]]
  ELSE cache

\* cache.set(key, value, ttlSeconds): redis.setex, skipped when the flag is
\* down, swallowed when redis raises
CacheSet(cache, key, value, ttlSeconds, flag, up, stamp) ==
  IF flag /\ up
  THEN [k \in DOMAIN cache \cup {key} |->
          IF k = key
          THEN [val |-> value, ttl |-> ttlSeconds, age |-> 0, epoch |-> stamp]
          ELSE cache[k]]
  ELSE cache

\* cache.del(key)
CacheDel(cache, key, flag, up) ==
  IF flag /\ up THEN Restrict(cache, DOMAIN cache \ {key}) ELSE cache

\* cache.delPattern(pattern): redis.keys(pattern), then redis.del(...keys)
CacheDelPattern(cache, pattern, flag, up) ==
  IF flag /\ up
  THEN Restrict(cache, {k \in DOMAIN cache : ~GlobMatch(pattern, k)})
  ELSE cache

\* a variant that leaves the list keys and deletes the aggregates only
InvalidateCachesAggregatesOnly(cache, type, flag, up) ==
  LET c2 == CacheDel(cache, <<"dashboard", "stats">>, flag, up)
      c3 == CacheDel(c2, <<"analytics", "insights">>, flag, up)
  IN CacheDel(c3, <<"analytics", "trends">>, flag, up)

\* the invalidation block of the upload routes
InvalidateCaches(cache, type, flag, up) ==
  LET c1 == CacheDelPattern(cache, <<"patients", type, "*">>, flag, up)
      c2 == CacheDel(c1, <<"dashboard", "stats">>, flag, up)
      c3 == CacheDel(c2, <<"analytics", "insights">>, flag, up)
  IN CacheDel(c3, <<"analytics", "trends">>, flag, up)

(***************************************************************************)
(* Derived store data generated after a synchronous batch.                 *)
(***************************************************************************)
\* [...maternal, ...pediatric], each patient named by its type and key
Present(pat) == UNION {{<<t, k>> : k \in DOMAIN pat[t].recs} : t \in Types}

HighRisk(pat) ==
  {x \in Present(pat) : pat[x[1]].recs[x[2]].riskLevel \in {"high", "critical"}}

\* Math.round(value * factor), the factor given in tenths
RoundTenths(value, tenths) == (value * tenths + 5) \div 10

\* generatePolicyScenarios
\* a variant without the test for scenarios that exist already
GeneratePolicyScenariosUnguarded(pat, existing) ==
  LET total == Cardinality(Present(pat))
      high == Cardinality(HighRisk(pat))
      factor == IF high * 100 > 40 * total THEN 12
                ELSE IF high * 100 > 20 * total THEN 10 ELSE 8
      Scenario(id, m, i) ==
        [scenarioId |-> id, maternalMortalityChange |-> RoundTenths(m, factor),
         infantMortalityChange |-> RoundTenths(i, factor)]
  IN IF total = 0 THEN existing
     ELSE existing \o <<Scenario("PS001", -15, -12), Scenario("PS002", -22, -18),
                        Scenario("PS003", -18, -20)>>

GeneratePolicyScenarios(pat, existing) ==
  LET total == Cardinality(Present(pat))
      high == Cardinality(HighRisk(pat))
      factor == IF high * 100 > 40 * total THEN 12
                ELSE IF high * 100 > 20 * total THEN 10 ELSE 8
      Scenario(id, m, i) ==
        [scenarioId |-> id, maternalMortalityChange |-> RoundTenths(m, factor),
         infantMortalityChange |-> RoundTenths(i, factor)]
  IN IF Len(existing) > 0 \/ total = 0 THEN existing
     ELSE <<Scenario("PS001", -15, -12), Scenario("PS002", -22, -18),
            Scenario("PS003", -18, -20)>>

\* p.patientId.substring(0, 3).toUpperCase() on the identity keys of the model
RegionOf(key) ==
  CASE key = "p1" -> "P1"
    [] key = "p2" -> "P2"
    [] OTHER -> key

Max(a, b) == IF a > b THEN a ELSE b

Min(a, b) == IF a < b THEN a ELSE b

\* generateResourceAllocations (the default-regions branch needs patients
\* and no region at once and is never taken)
GenerateResourceAllocations(pat, existing, now) ==
  LET regions == {RegionOf(x[2]) : x \in Present(pat)}
      InRegion(g) == Cardinality({x \in Present(pat) : RegionOf(x[2]) = g})
      HighIn(g) == Cardinality({x \in HighRisk(pat) : RegionOf(x[2]) = g})
  IN IF DOMAIN existing # {} \/ Present(pat) = {} THEN existing
     ELSE [g \in regions |->
             [nicuBeds |-> Min(Max(20, 8 * (InRegion(g) + HighIn(g))), 80),
              obgynStaff |-> Min(Max(15, 6 * (InRegion(g) + HighIn(g))), 60),
              vaccineStock |-> Min(Max(60, 75 + 2 * InRegion(g) + HighIn(g)), 95),
              lastUpdated |-> now]]

(***************************************************************************)
(* A whole batch on either path, from a given store and cache: what the    *)
(* upload route leaves behind when it processes the rows itself, and what  *)
(* the job processor leaves behind.                                        *)
(***************************************************************************)
\* the synchronous branch of the upload route: the row loop, the generated
\* data, the invalidation
SyncBatch(w, type, rows, now, flag, up) ==
  LET acc == SyncLoop(type, rows, 1, NewAcc(w.patients[type]), now)
      pat == [w.patients EXCEPT ![type] = acc.store]
  IN [patients |-> pat,
      scenarios |-> GeneratePolicyScenarios(pat, w.scenarios),
      resources |-> GenerateResourceAllocations(pat, w.resources, now),
      cache |-> InvalidateCaches(w.cache, type, flag, up)]

\* the job processor: the row loop and nothing after it but the unlink
JobBatch(w, type, rows, now, flag, up) ==
  LET acc == JobLoop(type, rows, 1, NewAcc(w.patients[type]), now)
  IN [patients |-> [w.patients EXCEPT ![type] = acc.store],
      scenarios |-> w.scenarios,
      resources |-> w.resources,
      cache |-> w.cache]

(***************************************************************************)
(* State.                                                                  *)
(***************************************************************************)
VARIABLES
  csvProcessingQueue,  \* the exported queue handle: "queue" or "null"
  backendUp,           \* whether the Redis server behind queue and cache answers
  redisAvailable,      \* the cache module's availability flag
  files,               \* the uploads whose temporary file exists in the scratch directory
  req,                 \* per upload: the request, its job and the accumulators of its run
  patients,            \* memoryStore: per type, the records by identity key
  disk,                \* memoryStore: per type, the JSON file and the writes to it in flight
  scenarios,           \* memoryStore: the policy scenarios
  resources,           \* memoryStore: the resource allocations by region
  cacheStore,          \* the keys held by Redis, each with value, ttl and age
  clock,               \* seconds since start
  epoch,               \* number of row loops started so far
  nodeEnv,             \* env.NODE_ENV, read once when the process starts
  jobQueue,            \* how loading the jobQueue module went when the process started
  listReads            \* the list reads that have computed their response and not yet cached it

vars == <<csvProcessingQueue, backendUp, redisAvailable, files, req, patients, disk,
          scenarios, resources, cacheStore, clock, epoch, nodeEnv, jobQueue,
          listReads>>

\* the request slots: MaxReqs of them, and PairReqs where requests are paired
Reqs == 1..(IF MaxReqs < PairReqs THEN PairReqs ELSE MaxReqs)

NoResp == [status |-> 0, kind |-> "none", body |-> [none |-> TRUE]]

Acc0 ==
  [successCount |-> 0, errors |-> <<>>, progress |-> [num |-> 0, den |-> 1],
   calls |-> <<>>]

IdleReq ==
  [pc |-> "idle", type |-> "maternal", hasFile |-> FALSE, file |-> HeaderOnlyFile,
   data |-> <<>>, i |-> 1, acc |-> Acc0, resp |-> NoResp,
   job |-> "none", attemptsMade |-> 0, runs |-> 0, failedReason |-> "",
   result |-> [none |-> TRUE], downAtSubmit |-> FALSE, number |-> 0,
   unlinkTried |-> FALSE, unlinkFailed |-> FALSE, log |-> {},
   doneWrites |-> 0, cacheUpAtDone |-> FALSE,
   reading |-> FALSE, stalledCount |-> 0, peak |-> [num |-> 0, den |-> 1],
   doneRecs |-> <<>>, doneAt |-> 0, delays |-> <<>>, gen |-> <<>>]

WithStore(acc, store) ==
  [successCount |-> acc.successCount, errors |-> acc.errors,
   progress |-> acc.progress, calls |-> acc.calls, store |-> store]

NoStore(acc) ==
  [successCount |-> acc.successCount, errors |-> acc.errors, progress |-> acc.progress,
   calls |-> acc.calls]

\* the values envSchema allows for NODE_ENV
NodeEnvs == {"development", "production", "test"}

\* loading the jobQueue module: new Bull(...) inside try/catch, where a throw
\* leaves the handle null; then, outside the try, csvProcessingQueue.process
\* (twice) and csvProcessingQueue.on (three times), which throw a TypeError on
\* a null handle, so that the module, and the routes that import it, fail to
\* load
LoadJobQueue(throws) ==
  LET handle == IF throws THEN "null" ELSE "queue"
  IN [handle |-> handle, threw |-> throws, loaded |-> handle # "null"]

\* the process after loading the jobQueue module
Loaded(throws) ==
  /\ csvProcessingQueue = LoadJobQueue(throws).handle
  /\ jobQueue = [threw |-> LoadJobQueue(throws).threw,
                 loaded |-> LoadJobQueue(throws).loaded]

\* the server is listening: its modules have loaded
Running == jobQueue.loaded

\* the state of everything else when the process has started and no request
\* has been received yet
Started ==
  /\ backendUp \in BOOLEAN
  /\ listReads = {}
  /\ redisAvailable = FALSE
  /\ files = {}
  /\ req = [r \in Reqs |-> IdleReq]
  /\ patients = [t \in Types |-> EmptyStore]
  /\ disk = [t \in Types |-> EmptyDisk]
  /\ scenarios = <<>>
  /\ resources = <<>>
  /\ cacheStore = <<>>
  /\ clock = 0
  /\ epoch = 0

\* a process started without NODE_ENV set: envSchema's default
Init ==
  /\ Started
  /\ Loaded(FALSE)
  /\ nodeEnv = "development"

\* a process started in any of the environments
InitAnyEnv ==
  /\ Started
  /\ Loaded(FALSE)
  /\ nodeEnv \in NodeEnvs

\* a process in which new Bull(...) may have thrown
InitAnyStart ==
  /\ Started
  /\ \E throws \in BOOLEAN : Loaded(throws)
  /\ nodeEnv = "development"

(***************************************************************************)
(* fs.unlink(path).catch(() => {}): the file is gone when the call         *)
(* succeeds; a failure is swallowed and nothing is logged.                 *)
(***************************************************************************)
\* a variant in which the call is left out
UnlinkedNever(fs, r, ok) == fs

Unlinked(fs, r, ok) == IF ok THEN fs \ {r} ELSE fs

AfterUnlink(q, r, ok) ==
  [q EXCEPT !.unlinkTried = TRUE, !.unlinkFailed = ~ok \/ r \notin files]

(***************************************************************************)
(* The upload request: multer, validateUploadedFile, the route handler.    *)
(***************************************************************************)
\* fileFilter: the upload is accepted when its MIME type or its extension is
\* an allowed one
AllowedMimes == {"text/csv", "application/vnd.ms-excel", "application/csv", "text/plain"}

AllowedExts == {".csv"}

FileFilter(mimetype, ext) == mimetype \in AllowedMimes \/ ext \in AllowedExts

\* the application's error handler (server.ts): 500, with the error's message
\* and stack in development and 'Internal server error' otherwise
ErrorHandler(q, message) ==
  [q EXCEPT !.pc = "done",
            !.log = @ \cup {"Unhandled error"},
            !.resp = [status |-> 500, kind |-> "error",
                      body |-> [error |-> IF nodeEnv = "development"
                                          THEN message ELSE "Internal server error",
                                detail |-> IF nodeEnv = "development" THEN message ELSE "",
                                cause |-> "upload"]]]

\* an upload that fileFilter refuses: multer stores nothing and passes
\* Error('Only CSV files are allowed') on, which skips the route and reaches
\* the error handler
UploadRefused(r, t, mimetype, ext) ==
  /\ Running
  /\ req[r].pc = "idle"
  /\ \A q \in Reqs : q < r => req[q].pc # "idle"
  /\ ~FileFilter(mimetype, ext)
  /\ req' = [req EXCEPT ![r] =
               ErrorHandler([@ EXCEPT !.type = t,
                                      !.log = @ \cup {"Invalid file type attempted"}],
                            "Only CSV files are allowed")]
  /\ UNCHANGED <<nodeEnv, jobQueue, listReads, disk, csvProcessingQueue, backendUp, redisAvailable, files,
                 patients, scenarios, resources, cacheStore, clock, epoch>>

\* upload.single('file') stores a file that fileFilter accepts under a fresh
\* name
Upload(r, t, f) ==
  /\ Running
  /\ req[r].pc = "idle"
  /\ \A q \in Reqs : q < r => req[q].pc # "idle"
  /\ req' = [req EXCEPT ![r] = [@ EXCEPT !.pc = "uploaded", !.type = t,
                                         !.hasFile = TRUE, !.file = f]]
  /\ files' = files \cup {r}
  /\ UNCHANGED <<nodeEnv, jobQueue, listReads, disk, csvProcessingQueue, backendUp, redisAvailable, patients, scenarios,
                 resources, cacheStore, clock, epoch>>

\* a request without a file part: nothing is written
UploadNoFile(r, t) ==
  /\ Running
  /\ req[r].pc = "idle"
  /\ \A q \in Reqs : q < r => req[q].pc # "idle"
  /\ req' = [req EXCEPT ![r] = [@ EXCEPT !.pc = "uploaded", !.type = t]]
  /\ UNCHANGED <<nodeEnv, jobQueue, listReads, disk, csvProcessingQueue, backendUp, redisAvailable, files, patients,
                 scenarios, resources, cacheStore, clock, epoch>>

\* the body of an error response: error is its error text; detail is the
\* message of the exception where the body carries it (appended to the error
\* text, or as details or stack), "" where it carries none; cause records
\* where the error arose
ErrorBody(error, detail, cause) == [error |-> error, detail |-> detail, cause |-> cause]

Respond(q, status, kind, body) ==
  [q EXCEPT !.pc = "done", !.resp = [status |-> status, kind |-> kind, body |-> body]]

\* validateUploadedFile; readOk is whether fs.readFile succeeds, unlinkOk
\* whether fs.unlink does
ValidateUploadedFile(r, readOk, unlinkOk) ==
  /\ req[r].pc = "uploaded"
  /\ LET q == req[r]
         Reject(status, message) ==
           /\ req' = [req EXCEPT ![r] = Respond(AfterUnlink(q, r, unlinkOk),
                                                status, "error", ErrorBody(message, "", "validation"))]
           /\ files' = Unlinked(files, r, unlinkOk)
     IN IF ~q.hasFile
        THEN /\ req' = [req EXCEPT ![r] =
                          Respond(q, 400, "error",
                                  ErrorBody("No file uploaded", "", "validation"))]
             /\ files' = files
        ELSE IF ~readOk
        THEN /\ req' = [req EXCEPT ![r] =
                          Respond([AfterUnlink(q, r, unlinkOk) EXCEPT
                                     !.log = @ \cup {"Error validating uploaded file"}],
                                  500, "error",
                                  ErrorBody("Error processing uploaded file",
                                            IF nodeEnv = "development" THEN "read" ELSE "",
                                            "validation"))]
             /\ files' = Unlinked(files, r, unlinkOk)
        ELSE IF q.file.lines < 2
        THEN Reject(400, "CSV file must contain at least a header row and one data row")
        ELSE IF ~q.file.delim
        THEN Reject(400, "File does not appear to be a valid CSV file")
        ELSE /\ req' = [req EXCEPT ![r] = [q EXCEPT !.pc = "handler"]]
             /\ files' = files
  /\ UNCHANGED <<nodeEnv, jobQueue, listReads, disk, csvProcessingQueue, backendUp, redisAvailable, patients, scenarios,
                 resources, cacheStore, clock, epoch>>

\* the catch block of the upload routes: log, unlink, answer 500 with
\* 'Error processing upload: ' + error.message
HandlerCatch(q, r, unlinkOk, message) ==
  Respond([AfterUnlink(q, r, unlinkOk) EXCEPT !.log = @ \cup {"Error processing CSV"}],
          500, "error", ErrorBody("Error processing upload: ", message, message))

\* csvProcessingQueue.add(...) resolves with a job while the backend answers.
\* While it does not, the call either rejects or stays pending until the
\* backend is back (the client's offline queue); which one depends on the
\* client's retry settings, so both outcomes are kept.
AddResolves(up) == up

\* the answer once the job is enqueued: { success, message, jobId }
Queued(q, r) ==
  Respond([q EXCEPT !.job = "waiting", !.log = @ \cup {"CSV upload queued"}],
          200, "jobId", [jobId |-> r])

\* POST /maternal/upload, POST /pediatric/upload up to the row loop:
\* enqueue when the handle is set, else read and parse the file
Handler(r, unlinkOk, pending) ==
  /\ req[r].pc = "handler"
  /\ LET q == [req[r] EXCEPT !.downAtSubmit = ~backendUp] IN
     IF csvProcessingQueue # "null"
     THEN IF AddResolves(backendUp)
          THEN /\ req' = [req EXCEPT ![r] = Queued(q, r)]
               /\ UNCHANGED <<files, epoch>>
          ELSE IF pending
          THEN /\ req' = [req EXCEPT ![r] = [q EXCEPT !.pc = "adding"]]
               /\ UNCHANGED <<files, epoch>>
          ELSE /\ req' = [req EXCEPT ![r] = HandlerCatch(q, r, unlinkOk, "add")]
               /\ files' = Unlinked(files, r, unlinkOk)
               /\ UNCHANGED epoch
     ELSE IF r \notin files \/ ~q.file.parses
          THEN /\ req' = [req EXCEPT ![r] =
                            HandlerCatch([q EXCEPT !.log = @ \cup {"Processing CSV synchronously"}],
                                         r, unlinkOk, "read or parse")]
               /\ files' = Unlinked(files, r, unlinkOk)
               /\ UNCHANGED epoch
          ELSE /\ req' = [req EXCEPT ![r] =
                            [q EXCEPT !.pc = "rows", !.data = q.file.rows, !.i = 1,
                                      !.acc = Acc0, !.number = epoch + 1,
                                      !.log = @ \cup {"Processing CSV synchronously"}]]
               /\ epoch' = epoch + 1
               /\ UNCHANGED files
  /\ UNCHANGED <<nodeEnv, jobQueue, listReads, disk, csvProcessingQueue, backendUp, redisAvailable, patients, scenarios,
                 resources, cacheStore, clock>>

\* a pending csvProcessingQueue.add(...) resolves once the backend is back
AddSettles(r) ==
  /\ req[r].pc = "adding"
  /\ AddResolves(backendUp)
  /\ req' = [req EXCEPT ![r] = Queued(req[r], r)]
  /\ UNCHANGED <<nodeEnv, jobQueue, listReads, disk, csvProcessingQueue, backendUp, redisAvailable, files, patients,
                 scenarios, resources, cacheStore, clock, epoch>>

\* the awaited store call of request r has returned: no write of r is in
\* flight
Settled(r) == \A t \in Types : r \notin DOMAIN disk[t].inflight

\* the write to the JSON file started by the store call of request r ends
WriteSettles(r, t, torn) ==
  /\ r \in DOMAIN disk[t].inflight
  /\ torn => r \in disk[t].raced
  /\ disk' = [disk EXCEPT ![t] = EndWrite(@, r, torn)]
  /\ UNCHANGED <<nodeEnv, jobQueue, listReads, csvProcessingQueue, backendUp, redisAvailable, files, req, patients,
                 scenarios, resources, cacheStore, clock, epoch>>

\* a variant that walks the parsed rows from the last to the first
SyncRowBackwards(r) ==
  /\ Settled(r)
  /\ req[r].pc = "rows"
  /\ req[r].i <= Len(req[r].data)
  /\ LET q == req[r]
         out == SyncRowStep(q.type, q.data[Len(q.data) + 1 - q.i],
                            WithStore(q.acc, patients[q.type]), clock)
     IN /\ req' = [req EXCEPT ![r] = [q EXCEPT !.i = @ + 1, !.acc = NoStore(out)]]
        /\ patients' = [patients EXCEPT ![q.type] = out.store]
        /\ disk' = IF out.store.writes > patients[q.type].writes
                   THEN [disk EXCEPT ![q.type] = StartWrite(@, r, out.store.recs)]
                   ELSE disk
  /\ UNCHANGED <<nodeEnv, jobQueue, listReads, csvProcessingQueue, backendUp, redisAvailable, files, scenarios,
                 resources, cacheStore, clock, epoch>>

\* one iteration of the synchronous row loop
SyncRow(r) ==
  /\ Settled(r)
  /\ req[r].pc = "rows"
  /\ req[r].i <= Len(req[r].data)
  /\ LET q == req[r]
         out == SyncRowStep(q.type, q.data[q.i], WithStore(q.acc, patients[q.type]), clock)
     IN /\ req' = [req EXCEPT ![r] = [q EXCEPT !.i = @ + 1, !.acc = NoStore(out)]]
        /\ patients' = [patients EXCEPT ![q.type] = out.store]
        /\ disk' = IF out.store.writes > patients[q.type].writes
                   THEN [disk EXCEPT ![q.type] = StartWrite(@, r, out.store.recs)]
                   ELSE disk
  /\ UNCHANGED <<nodeEnv, jobQueue, listReads, csvProcessingQueue, backendUp, redisAvailable, files, scenarios,
                 resources, cacheStore, clock, epoch>>

\* after the loop: unlink, generate the derived data, invalidate, answer
SyncFinish(r, unlinkOk) ==
  /\ Settled(r)
  /\ req[r].pc = "rows"
  /\ req[r].i > Len(req[r].data)
  /\ LET q == req[r] IN
     /\ req' = [req EXCEPT ![r] =
                  Respond([AfterUnlink(q, r, unlinkOk) EXCEPT
                             !.doneWrites = patients[q.type].writes,
                             !.cacheUpAtDone = redisAvailable /\ backendUp,
                             !.doneRecs = patients[q.type].recs,
                             !.doneAt = epoch],
                          200, "summary", SyncSummary(q.data, q.acc))]
     /\ files' = Unlinked(files, r, unlinkOk)
     /\ scenarios' = GeneratePolicyScenarios(patients, scenarios)
     /\ resources' = GenerateResourceAllocations(patients, resources, clock)
     /\ cacheStore' = InvalidateCaches(cacheStore, q.type, redisAvailable, backendUp)
  /\ UNCHANGED <<nodeEnv, jobQueue, listReads, disk, csvProcessingQueue, backendUp, redisAvailable, patients, clock,
                 epoch>>

(***************************************************************************)
(* The same part of the route as the steps it takes between other          *)
(* requests. generatePolicyScenarios reads the store and tests what it     *)
(* read without suspending, then awaits one createPolicyScenario call per  *)
(* scenario; a store write adds its record before it suspends on the file. *)
(***************************************************************************)
\* the scenarios a call of generatePolicyScenarios made now would create
ScenariosToCreate ==
  SubSeq(GeneratePolicyScenarios(patients, scenarios), Len(scenarios) + 1,
         Len(GeneratePolicyScenarios(patients, scenarios)))

\* unlink, the tests of generatePolicyScenarios and its first store call
SyncFinishStart(r, unlinkOk) ==
  /\ Settled(r)
  /\ req[r].pc = "rows"
  /\ req[r].i > Len(req[r].data)
  /\ req' = [req EXCEPT ![r] =
               [AfterUnlink(@, r, unlinkOk) EXCEPT
                  !.pc = "generating",
                  !.gen = IF ScenariosToCreate = <<>> THEN <<>> ELSE Tail(ScenariosToCreate)]]
  /\ files' = Unlinked(files, r, unlinkOk)
  /\ scenarios' = IF ScenariosToCreate = <<>> THEN scenarios
                  ELSE Append(scenarios, Head(ScenariosToCreate))
  /\ UNCHANGED <<nodeEnv, jobQueue, listReads, disk, csvProcessingQueue, backendUp,
                 redisAvailable, patients, resources, cacheStore, clock, epoch>>

\* the next store call of the loop in generatePolicyScenarios
SyncGenerate(r) ==
  /\ req[r].pc = "generating"
  /\ req[r].gen # <<>>
  /\ req' = [req EXCEPT ![r].gen = Tail(@)]
  /\ scenarios' = Append(scenarios, Head(req[r].gen))
  /\ UNCHANGED <<nodeEnv, jobQueue, listReads, disk, csvProcessingQueue, backendUp,
                 redisAvailable, files, patients, resources, cacheStore, clock, epoch>>

\* generateResourceAllocations, the invalidation and the answer
SyncFinishEnd(r) ==
  /\ req[r].pc = "generating"
  /\ req[r].gen = <<>>
  /\ LET q == req[r] IN
     /\ req' = [req EXCEPT ![r] =
                  Respond([q EXCEPT
                             !.doneWrites = patients[q.type].writes,
                             !.cacheUpAtDone = redisAvailable /\ backendUp,
                             !.doneRecs = patients[q.type].recs,
                             !.doneAt = epoch],
                          200, "summary", SyncSummary(q.data, q.acc))]
     /\ resources' = GenerateResourceAllocations(patients, resources, clock)
     /\ cacheStore' = InvalidateCaches(cacheStore, q.type, redisAvailable, backendUp)
  /\ UNCHANGED <<nodeEnv, jobQueue, listReads, disk, csvProcessingQueue, backendUp,
                 redisAvailable, files, patients, scenarios, clock, epoch>>

(***************************************************************************)
(* The job processors and Bull's retry policy (attempts: 3).               *)
(***************************************************************************)
\* progress values are kept as fractions num / den of a percentage
FracLess(a, b) == a.num * b.den < b.num * a.den

\* a variant that compares with <= and so grants one attempt more
AfterThrowOneMore(q, message) ==
  [q EXCEPT !.attemptsMade = @ + 1,
            !.job = IF q.attemptsMade + 1 <= Attempts THEN "waiting" ELSE "failed",
            !.failedReason = message,
            !.log = @ \cup {"Error processing CSV job"}]

\* a variant that parks the job to be retried in a delay that never ends
AfterThrowDelaysForever(q, message) ==
  [q EXCEPT !.attemptsMade = @ + 1,
            !.job = IF q.attemptsMade + 1 < Attempts THEN "delayed" ELSE "failed",
            !.failedReason = message,
            !.log = @ \cup {"Error processing CSV job"}]

\* backoff: { type: 'exponential', delay: 2000 }, in milliseconds
BackoffDelay == 2000

\* a variant that doubles the delay from one retry to the next
BackoffDoubling(attemptsMade) == 2 ^ (attemptsMade - 1) * BackoffDelay

\* the delay Bull's exponential strategy puts before the retry of a job that
\* has failed attemptsMade times: Math.round((2 ^ attemptsMade - 1) * delay)
Backoff(attemptsMade) == (2 ^ attemptsMade - 1) * BackoffDelay

\* what Bull does with a job whose processor threw: another attempt while
\* attempts are left, to be taken once its backoff delay has passed (the
\* delay is recorded, the job waits), else failed with the error attached
AfterThrow(q, message) ==
  [q EXCEPT !.attemptsMade = @ + 1,
            !.job = IF q.attemptsMade + 1 < Attempts THEN "waiting" ELSE "failed",
            !.delays = IF q.attemptsMade + 1 < Attempts
                       THEN Append(@, Backoff(q.attemptsMade + 1)) ELSE @,
            !.failedReason = message,
            !.log = @ \cup {"Error processing CSV job"}]

\* a variant that also takes a job that has failed
JobStartTakesFailed(r) ==
  /\ req[r].job \in {"waiting", "failed"}
  /\ backendUp
  /\ req' = [req EXCEPT ![r] =
               [@ EXCEPT !.job = "active", !.reading = TRUE, !.runs = @ + 1,
                         !.data = <<>>, !.i = 1,
                         !.acc = [Acc0 EXCEPT !.progress = req[r].acc.progress],
                         !.log = @ \cup {"Processing CSV file"}]]
  /\ UNCHANGED <<nodeEnv, jobQueue, listReads, disk, csvProcessingQueue, backendUp, redisAvailable, files, patients,
                 scenarios, resources, cacheStore, clock, epoch>>

\* a worker takes a waiting job: Bull marks it active and calls the processor
JobStart(r) ==
  /\ req[r].job = "waiting"
  /\ backendUp
  /\ req' = [req EXCEPT ![r] =
               [@ EXCEPT !.job = "active", !.reading = TRUE, !.runs = @ + 1,
                         !.data = <<>>, !.i = 1,
                         !.acc = [Acc0 EXCEPT !.progress = req[r].acc.progress],
                         !.log = @ \cup {"Processing CSV file"}]]
  /\ UNCHANGED <<nodeEnv, jobQueue, listReads, disk, csvProcessingQueue, backendUp, redisAvailable, files, patients,
                 scenarios, resources, cacheStore, clock, epoch>>

\* the processor up to its row loop: fs.readFile and Papa.parse; the catch
\* block unlinks and rethrows
JobRead(r, unlinkOk) ==
  /\ req[r].job = "active"
  /\ req[r].reading
  /\ LET q == [req[r] EXCEPT !.reading = FALSE] IN
     IF r \notin files \/ ~q.file.parses
     THEN /\ req' = [req EXCEPT ![r] =
                       AfterThrow(AfterUnlink(q, r, unlinkOk),
                                  IF r \notin files THEN "ENOENT" ELSE "parse")]
          /\ files' = Unlinked(files, r, unlinkOk)
          /\ UNCHANGED epoch
     ELSE /\ req' = [req EXCEPT ![r] =
                       [q EXCEPT !.data = q.file.rows, !.number = epoch + 1]]
          /\ epoch' = epoch + 1
          /\ UNCHANGED files
  /\ UNCHANGED <<nodeEnv, jobQueue, listReads, disk, csvProcessingQueue, backendUp, redisAvailable, patients, scenarios,
                 resources, cacheStore, clock>>

\* one iteration of the processor's row loop
JobRow(r) ==
  /\ Settled(r)
  /\ req[r].job = "active"
  /\ ~req[r].reading
  /\ req[r].i <= Len(req[r].data)
  /\ LET q == req[r]
         out == JobRowStep(q.type, q.data[q.i], WithStore(q.acc, patients[q.type]),
                           Len(q.data), clock)
     IN /\ req' = [req EXCEPT ![r] =
                     [q EXCEPT !.i = @ + 1, !.acc = NoStore(out),
                               !.peak = IF FracLess(@, out.progress)
                                        THEN out.progress ELSE @]]
        /\ patients' = [patients EXCEPT ![q.type] = out.store]
        /\ disk' = IF out.store.writes > patients[q.type].writes
                   THEN [disk EXCEPT ![q.type] = StartWrite(@, r, out.store.recs)]
                   ELSE disk
  /\ UNCHANGED <<nodeEnv, jobQueue, listReads, csvProcessingQueue, backendUp, redisAvailable, files, scenarios,
                 resources, cacheStore, clock, epoch>>

\* a variant whose fs.unlink has no .catch: a failed deletion reaches the
\* processor's catch block, which rethrows it
JobFinishUnlinkThrows(r, unlinkOk) ==
  /\ Settled(r)
  /\ req[r].job = "active"
  /\ ~req[r].reading
  /\ req[r].i > Len(req[r].data)
  /\ LET q == req[r] IN
     /\ req' = [req EXCEPT ![r] =
                  IF unlinkOk
                  THEN [AfterUnlink(q, r, unlinkOk) EXCEPT
                          !.job = "completed", !.result = JobSummary(q.data, q.acc),
                          !.doneWrites = patients[q.type].writes,
                          !.cacheUpAtDone = redisAvailable /\ backendUp,
                          !.log = @ \cup {"CSV processing completed"}]
                  ELSE AfterThrow(AfterUnlink(q, r, unlinkOk), "unlink")]
     /\ files' = Unlinked(files, r, unlinkOk)
  /\ UNCHANGED <<nodeEnv, jobQueue, listReads, disk, csvProcessingQueue, backendUp, redisAvailable, patients, scenarios,
                 resources, cacheStore, clock, epoch>>

\* after the loop: unlink, log, return the summary; Bull completes the job
JobFinish(r, unlinkOk) ==
  /\ Settled(r)
  /\ req[r].job = "active"
  /\ ~req[r].reading
  /\ req[r].i > Len(req[r].data)
  /\ LET q == req[r] IN
     /\ req' = [req EXCEPT ![r] =
                  [AfterUnlink(q, r, unlinkOk) EXCEPT
                     !.job = "completed", !.result = JobSummary(q.data, q.acc),
                     !.doneWrites = patients[q.type].writes,
                     !.cacheUpAtDone = redisAvailable /\ backendUp,
                     !.doneRecs = patients[q.type].recs,
                     !.doneAt = epoch,
                     !.log = @ \cup {"CSV processing completed"}]]
     /\ files' = Unlinked(files, r, unlinkOk)
  /\ UNCHANGED <<nodeEnv, jobQueue, listReads, disk, csvProcessingQueue, backendUp, redisAvailable, patients, scenarios,
                 resources, cacheStore, clock, epoch>>

(***************************************************************************)
(* A run that stops renewing its lock (the worker died or its event loop   *)
(* was blocked) is found stalled by the queue: the job is put back to wait *)
(* for another run and 'stalled' is emitted, or, once it has stalled more  *)
(* than maxStalledCount times, it is failed and 'failed' is emitted. The   *)
(* interrupted run does nothing further; what it wrote stays written, the  *)
(* uploaded file stays, and the progress it reported stays on the job.     *)
(***************************************************************************)
Stall(r) ==
  /\ req[r].job = "active"
  /\ req' = [req EXCEPT ![r] =
               IF @.stalledCount < MaxStalledCount
               THEN [@ EXCEPT !.job = "waiting", !.reading = FALSE,
                              !.stalledCount = @ + 1,
                              !.log = @ \cup {"CSV processing job stalled"}]
               ELSE [@ EXCEPT !.job = "failed", !.reading = FALSE,
                              !.failedReason = "job stalled more than allowable limit",
                              !.log = @ \cup {"CSV processing job failed"}]]
  /\ UNCHANGED <<nodeEnv, jobQueue, listReads, disk, csvProcessingQueue, backendUp, redisAvailable, files, patients,
                 scenarios, resources, cacheStore, clock, epoch>>

(***************************************************************************)
(* The environment: the Redis server, and the events of the two clients.   *)
(***************************************************************************)
BackendDown ==
  /\ backendUp
  /\ backendUp' = FALSE
  /\ UNCHANGED <<nodeEnv, jobQueue, listReads, disk, csvProcessingQueue, redisAvailable, files, req, patients, scenarios,
                 resources, cacheStore, clock, epoch>>

BackendUp ==
  /\ ~backendUp
  /\ backendUp' = TRUE
  /\ UNCHANGED <<nodeEnv, jobQueue, listReads, disk, csvProcessingQueue, redisAvailable, files, req, patients, scenarios,
                 resources, cacheStore, clock, epoch>>

\* a variant that clears the handle whatever the code
OnQueueErrorAnyCode(handle, code) == "null"

\* csvProcessingQueue.on('error'): only ECONNREFUSED clears the handle
OnQueueError(handle, code) == IF code = "ECONNREFUSED" THEN "null" ELSE handle

QueueError(code) ==
  /\ Running
  /\ ~backendUp
  /\ csvProcessingQueue' = OnQueueError(csvProcessingQueue, code)
  /\ UNCHANGED <<nodeEnv, jobQueue, listReads, disk, backendUp, redisAvailable, files, req, patients, scenarios,
                 resources, cacheStore, clock, epoch>>

\* redis.on('connect')
RedisConnect ==
  /\ Running
  /\ backendUp
  /\ ~redisAvailable
  /\ redisAvailable' = TRUE
  /\ UNCHANGED <<nodeEnv, jobQueue, listReads, disk, csvProcessingQueue, backendUp, files, req, patients, scenarios,
                 resources, cacheStore, clock, epoch>>

\* redis.on('error'), redis.on('close')
RedisLost ==
  /\ Running
  /\ ~backendUp
  /\ redisAvailable
  /\ redisAvailable' = FALSE
  /\ UNCHANGED <<nodeEnv, jobQueue, listReads, disk, csvProcessingQueue, backendUp, files, req, patients, scenarios,
                 resources, cacheStore, clock, epoch>>

(***************************************************************************)
(* Reads that fill the cache, and the passing of time.                     *)
(***************************************************************************)
ListPages == {"1", "2"}

\* patients.slice(start, end) with limit 50 on the stores of the model (fewer
\* than 50 records): the first page holds every record, later pages none;
\* the response carries the page and the total
ListResponse(store, page) ==
  [data |-> IF page = "1" THEN store.recs ELSE <<>>,
   total |-> Cardinality(DOMAIN store.recs),
   writes |-> store.writes]

\* what GET /maternal, GET /pediatric answers: the cached response on a
\* hit, else the response computed from the store
ListAnswer(cache, store, t, page, flag, up) ==
  LET cached == CacheGet(cache, ListKey(t, page), flag, up)
  IN IF "val" \in DOMAIN cached
     THEN [src |-> "cache", age |-> cached.age, val |-> cached.val]
     ELSE [src |-> "store", age |-> 0, val |-> ListResponse(store, page)]

\* GET /maternal, GET /pediatric: on a miss the response is cached for 300 s
ListRead(t, page) ==
  /\ Running
  /\ LET answer == ListAnswer(cacheStore, patients[t], t, page, redisAvailable, backendUp)
     IN /\ answer.src = "store"
        /\ cacheStore' = CacheSet(cacheStore, ListKey(t, page), answer.val, ListTtl,
                                  redisAvailable, backendUp, epoch)
  /\ UNCHANGED <<nodeEnv, jobQueue, listReads, disk, csvProcessingQueue, backendUp, redisAvailable, files, req, patients,
                 scenarios, resources, clock, epoch>>

\* GET /maternal, GET /pediatric as the steps a read takes between other
\* requests: on a miss the handler reads the store and computes its response
\* ...
ListReadStart(t, page) ==
  /\ Running
  /\ \A rd \in listReads : ~(rd.type = t /\ rd.page = page)
  /\ LET answer == ListAnswer(cacheStore, patients[t], t, page, redisAvailable, backendUp)
     IN /\ answer.src = "store"
        /\ listReads' = listReads \cup {[type |-> t, page |-> page, val |-> answer.val]}
  /\ UNCHANGED <<nodeEnv, jobQueue, disk, csvProcessingQueue, backendUp, redisAvailable, files,
                 req, patients, scenarios, resources, cacheStore, clock, epoch>>

\* ... and, once its await on cache.set is served, caches that response for
\* 300 s and answers
ListReadSet(t, page) ==
  /\ \E rd \in listReads :
       /\ rd.type = t
       /\ rd.page = page
       /\ cacheStore' = CacheSet(cacheStore, ListKey(t, page), rd.val, ListTtl,
                                 redisAvailable, backendUp, epoch)
       /\ listReads' = listReads \ {rd}
  /\ UNCHANGED <<nodeEnv, jobQueue, disk, csvProcessingQueue, backendUp, redisAvailable, files,
                 req, patients, scenarios, resources, clock, epoch>>

\* memoryStore.deleteMaternalPatient, deletePediatricPatient: the record of
\* the key is removed
Remove(store, key) ==
  [recs |-> [k \in DOMAIN store.recs \ {key} |-> store.recs[k]],
   writes |-> store.writes + 1]

\* DELETE /maternal/:id, DELETE /pediatric/:id for a stored record, taken
\* while no other write to the file of the collection is in flight: the store
\* call, then { success: true }; the route touches nothing else
DeletePatient(t, id) ==
  /\ Running
  /\ id \in DOMAIN patients[t].recs
  /\ DOMAIN disk[t].inflight = {}
  /\ patients' = [patients EXCEPT ![t] = Remove(@, id)]
  /\ disk' = [disk EXCEPT ![t].content = [parses |-> TRUE, recs |-> Remove(patients[t], id).recs]]
  /\ UNCHANGED <<nodeEnv, jobQueue, listReads, csvProcessingQueue, backendUp, redisAvailable,
                 files, req, scenarios, resources, cacheStore, clock, epoch>>

\* the dashboard and analytics routes cache their aggregate under its key
AggregateRead(key) ==
  /\ Running
  /\ key \notin DOMAIN cacheStore
  /\ cacheStore' = CacheSet(cacheStore, key, [aggregate |-> key],
                            ListTtl, redisAvailable, backendUp, epoch)
  /\ UNCHANGED <<nodeEnv, jobQueue, listReads, disk, csvProcessingQueue, backendUp, redisAvailable, files, req, patients,
                 scenarios, resources, clock, epoch>>

\* Redis drops a key once its ttl has run out
Expire(cache, seconds) ==
  LET aged == [k \in DOMAIN cache |-> [cache[k] EXCEPT !.age = @ + seconds]]
  IN Restrict(aged, {k \in DOMAIN aged : aged[k].age < aged[k].ttl})

Tick ==
  /\ clock < MaxTicks * TickSeconds
  /\ clock' = clock + TickSeconds
  /\ cacheStore' = Expire(cacheStore, TickSeconds)
  /\ UNCHANGED <<nodeEnv, jobQueue, listReads, disk, csvProcessingQueue, backendUp, redisAvailable, files, req, patients,
                 scenarios, resources, epoch>>

(***************************************************************************)
(* The files the uploads draw from.                                        *)
(***************************************************************************)
RowExplicit == Row("p1", "Ann", "30", <<"htn">>, "80", "High", "model", "ok", "ok")

RowPredicted == Row("p1", "Ann", "30", <<"htn ", " dm">>, "", "", "model", "ok", "ok")

RowScorerThrows == Row("p2", "Bea", "30", <<"htn">>, "", "High", "throw", "ok", "ok")

RowStoreThrows == Row("p2", "Bea", "30", <<"htn">>, "80", "High", "model", "throw", "ok")

RowProgressThrows == Row("p2", "Bea", "30", <<"htn">>, "80", "LOW", "model", "ok", "throw")

RowNoId == Row("", "Cy", "30", <<"htn">>, "80", "High", "model", "ok", "ok")

RowNoName == Row("p1", "", "30", <<"htn">>, "80", "High", "model", "ok", "ok")

RowNoAge == Row("p2", "Bea", "", <<"htn">>, "80", "High", "model", "ok", "ok")

RowNoFactors == Row("p1", "Ann", "30", <<>>, "", "", "fallback", "ok", "ok")

RowSet == {RowExplicit, RowPredicted, RowScorerThrows, RowStoreThrows, RowProgressThrows,
           RowNoId, RowNoName, RowNoAge, RowNoFactors}

\* a score without a level: one of the two cells is missing
RowScoreOnly == Row("p2", "Bea", "30", <<"htn">>, "80", "", "model", "ok", "ok")

\* a row that states its own last_updated
RowDated == [RowExplicit EXCEPT !.last_updated = "2024-01-01"]

\* a valid row without score or level, scored while the model is unavailable
FallbackRow(id) == Row(id, "Dee", "30", <<"htn">>, "", "", "fallback", "ok", "ok")

\* a row without a name
FailRow(id) == Row(id, "", "30", <<"htn">>, "80", "High", "model", "ok", "ok")

\* what the parser yields for a line whose quoted name is never closed: the
\* name cell holds the rest of the line and the cells after it are missing
RowUnterminated == Row("p2", "Bea,30,htn,80,High", "", <<>>, "", "", "model", "ok", "ok")

\* a row that states a score above 100 and a level outside the four levels
RowOutOfRange == Row("p3", "Eve", "30", <<"htn">>, "150", "Severe", "model", "ok", "ok")

\* a row whose score cell is not a number
RowScoreNotNumber == Row("p3", "Eve", "30", <<"htn">>, "abc", "High", "model", "ok", "ok")

\* a pediatric row with its birth weight and gestation weeks, to be scored
RowChild ==
  [Row("c1", "Kid", "", <<"preterm">>, "", "", "model", "ok", "ok") EXCEPT
     !.birth_weight = "2.5", !.gestation_weeks = "36"]

\* the same row without its birth weight
RowChildNoWeight == [RowChild EXCEPT !.id = "c2", !.birth_weight = ""]

SeqsUpTo(S, n) == UNION {[1..k -> S] : k \in 0..n}

\* three rows, the second without its identity key
ExampleFile == CsvFile(<<RowExplicit, RowNoId, RowPredicted>>)

\* rows with both cells, with one of them and with neither
ScoredFile == CsvFile(<<RowExplicit, RowScoreOnly, RowPredicted>>)

\* a valid line, then a line with an unterminated quote: the parser reports
\* the second line in errors and yields both rows in data
MalformedFile ==
  [CsvFile(<<RowExplicit, RowUnterminated>>) EXCEPT !.parseErrors = TRUE]

\* five valid rows without score or level while the scorer's model is down
FiveRowFile ==
  CsvFile(<<FallbackRow("p1"), FallbackRow("p2"), FallbackRow("p3"),
            FallbackRow("p4"), FallbackRow("p5")>>)

FailIds == <<"f1", "f2", "f3", "f4", "f5", "f6", "f7", "f8", "f9", "f10", "f11", "f12">>

\* twelve rows that fail, around one that does not
ManyFailuresFile ==
  CsvFile([j \in 1..6 |-> FailRow(FailIds[j])] \o <<RowExplicit>>
            \o [j \in 1..6 |-> FailRow(FailIds[j + 6])])

\* file contents written out as the lines fileContent.split('\n') yields:
\* empty, blanks only, with a comma, with a semicolon, with neither
Lines == {"", "  ", "a,b", "a;b", "ab"}

\* line.trim()
TrimLine(line) == IF line \in {"", "  "} THEN "" ELSE line

\* line.includes(ch)
Includes(line, ch) == (ch = "," /\ line = "a,b") \/ (ch = ";" /\ line = "a;b")

\* fileContent.split('\n').filter(line => line.trim())
NonBlank(text) == SelectSeq(text, LAMBDA line : TrimLine(line) # "")

\* a variant that looks for a comma only
HasDelimiterCommaOnly(lines) == Includes(lines[1], ",")

\* hasComma || hasSemicolon, of lines[0]
HasDelimiter(lines) == Includes(lines[1], ",") \/ Includes(lines[1], ";")

\* the row the parser yields for a line under a header: a line delimited as
\* the header is has its cells, any other line has none of the required ones
RowOfLine(header, line) == IF line = header THEN RowExplicit ELSE RowNoId

\* the file with the content text: what validateUploadedFile computes of it,
\* and the rows the parser yields, one for each non-blank line after the
\* header
TextFile(text) ==
  LET lines == NonBlank(text) IN
  [lines |-> Len(lines),
   delim |-> Len(lines) >= 1 /\ HasDelimiter(lines),
   parses |-> TRUE, parseErrors |-> FALSE,
   rows |-> [i \in 1..(Len(lines) - 1) |-> RowOfLine(lines[1], lines[i + 1])],
   text |-> text]

\* every file of up to MaxRows rows, the longer files, and the files upload
\* validation refuses or the parser cannot tokenize
AllFiles ==
  {CsvFile(rows) : rows \in SeqsUpTo(RowSet, MaxRows)}
    \cup {ExampleFile, ScoredFile, FiveRowFile, ManyFailuresFile,
          CsvFile(<<RowDated>>), CsvFile(<<RowOutOfRange>>),
          CsvFile(<<RowScoreNotNumber>>), CsvFile(<<RowChild, RowChildNoWeight>>),
          NoDelimiterFile,
          UnparsableFile, MalformedFile}

\* a few files, for the specifications that interleave several requests
FewFiles ==
  {CsvFile(<<RowExplicit>>), CsvFile(<<RowNoId, RowPredicted>>),
   HeaderOnlyFile, NoDelimiterFile, UnparsableFile}

\* the files of the specifications about the cache
CacheFiles == {CsvFile(<<RowExplicit>>), CsvFile(<<RowNoId>>)}

(***************************************************************************)
(* Specifications.                                                         *)
(***************************************************************************)
\* the steps of a request and of its job
Steps ==
  \/ \E r \in Reqs, readOk, unlinkOk \in BOOLEAN : ValidateUploadedFile(r, readOk, unlinkOk)
  \/ \E r \in Reqs, unlinkOk, pending \in BOOLEAN : Handler(r, unlinkOk, pending)
  \/ \E r \in Reqs : AddSettles(r)
  \/ \E r \in Reqs : SyncRow(r)
  \/ \E r \in Reqs, t \in Types, torn \in BOOLEAN : WriteSettles(r, t, torn)
  \/ \E r \in Reqs, unlinkOk \in BOOLEAN : SyncFinish(r, unlinkOk)
  \/ \E r \in Reqs : JobStart(r)
  \/ \E r \in Reqs, unlinkOk \in BOOLEAN : JobRead(r, unlinkOk)
  \/ \E r \in Reqs : JobRow(r)
  \/ \E r \in Reqs, unlinkOk \in BOOLEAN : JobFinish(r, unlinkOk)

\* the steps of the pipeline and of its environment, reads and time aside
Pipeline ==
  \/ Steps
  \/ BackendDown
  \/ BackendUp
  \/ \E code \in {"ECONNREFUSED", "ETIMEDOUT"} : QueueError(code)
  \/ RedisConnect
  \/ RedisLost

\* MaxReqs requests, in flight together when there are several, over a few
\* files, with every event of the environment
Next ==
  \/ \E r \in 1..MaxReqs, t \in Types, f \in FewFiles : Upload(r, t, f)
  \/ \E r \in 1..MaxReqs, t \in Types : UploadNoFile(r, t)
  \/ Pipeline

Spec == Init /\ [][Next]_vars

\* one request over every file of up to MaxRows rows; of the environment,
\* the events that decide the path: the backend coming up, the queue's
\* 'error' event
NextRows ==
  \/ \E t \in Types, f \in AllFiles : Upload(1, t, f)
  \/ Steps
  \/ BackendUp
  \/ QueueError("ECONNREFUSED")

SpecRows == Init /\ [][NextRows]_vars

\* two one-row files for the same patient: the row with its own score and
\* the predicted row
PairFiles == {CsvFile(<<RowExplicit>>), CsvFile(<<RowPredicted>>)}

\* PairReqs maternal requests in flight together, each on either path
NextPair ==
  \/ \E r \in 1..PairReqs, f \in PairFiles : Upload(r, "maternal", f)
  \/ Steps
  \/ BackendUp
  \/ QueueError("ECONNREFUSED")

SpecPair == Init /\ [][NextPair]_vars

\* the request has been answered, its job if any has ended and its store
\* calls have returned
Finished(r) ==
  /\ req[r].pc = "done"
  /\ req[r].job \in {"none", "completed", "failed"}
  /\ Settled(r)

\* files of rows with and without a last_updated cell
TwiceFiles == {CsvFile(<<RowDated, RowScoreOnly>>), CsvFile(<<RowPredicted>>)}

\* PairReqs maternal requests one after the other, each uploaded once the
\* one before is finished, while time passes
NextTwice ==
  \/ \E r \in 1..PairReqs, f \in TwiceFiles :
       /\ \A q \in 1..(r - 1) : Finished(q)
       /\ Upload(r, "maternal", f)
  \/ Steps
  \/ BackendUp
  \/ QueueError("ECONNREFUSED")
  \/ Tick

SpecTwice == Init /\ [][NextTwice]_vars

\* the files of the specifications about the life of a job
JobFiles == {ScoredFile, CsvFile(<<RowExplicit, RowNoId>>), UnparsableFile}

\* one request whose runs may stall, with a backend that comes up and stays
NextJobs ==
  \/ \E t \in Types, f \in JobFiles : Upload(1, t, f)
  \/ Steps
  \/ BackendUp
  \/ QueueError("ECONNREFUSED")
  \/ Stall(1)

SpecJobs == Init /\ [][NextJobs]_vars

\* the same under fair scheduling: a step of the pipeline that stays possible
\* is eventually taken and the backend eventually comes up; stalls and the
\* queue's 'error' event may or may not happen
SpecJobsFair == SpecJobs /\ WF_vars(Steps) /\ WF_vars(BackendUp)

\* the files of the specification about the answers: a valid one, one whose
\* rows all fail, and those refused by validation or by the parser
AnswerFiles ==
  {CsvFile(<<RowExplicit>>), CsvFile(<<RowNoId, RowStoreThrows>>), HeaderOnlyFile,
   NoDelimiterFile, UnparsableFile, MalformedFile}

\* one request of any kind, in any environment: with a file, without one, or
\* with a file of a type the filter refuses
NextAnswers ==
  \/ \E t \in Types, f \in AnswerFiles : Upload(1, t, f)
  \/ \E t \in Types : UploadNoFile(1, t)
  \/ \E t \in Types, mimetype \in {"text/csv", "application/pdf"}, ext \in {".csv", ".pdf"} :
       UploadRefused(1, t, mimetype, ext)
  \/ Steps
  \/ BackendUp
  \/ QueueError("ECONNREFUSED")

SpecAnswers == InitAnyEnv /\ [][NextAnswers]_vars

\* one request in a process whose queue construction may have thrown, with
\* every event of the environment
NextStartup ==
  \/ \E t \in Types, f \in FewFiles : Upload(1, t, f)
  \/ Pipeline

SpecStartup == InitAnyStart /\ [][NextStartup]_vars

\* one maternal request and maternal list reads that interleave with it,
\* with a backend and a cache that come up and stay, while time passes
NextReads ==
  \/ \E f \in CacheFiles : Upload(1, "maternal", f)
  \/ Steps
  \/ BackendUp
  \/ QueueError("ECONNREFUSED")
  \/ RedisConnect
  \/ ListReadStart("maternal", "1")
  \/ ListReadSet("maternal", "1")
  \/ Tick

SpecReads == Init /\ [][NextReads]_vars

\* PairReqs synchronous requests of either type in flight together, over a
\* file with a valid row and a file without one, the end of each request
\* taken step by step
NextScenarios ==
  \/ \E r \in 1..PairReqs, t \in Types, f \in CacheFiles :
       /\ csvProcessingQueue = "null"
       /\ Upload(r, t, f)
  \/ \E r \in Reqs : ValidateUploadedFile(r, TRUE, TRUE)
  \/ \E r \in Reqs : Handler(r, TRUE, FALSE)
  \/ \E r \in Reqs : SyncRow(r)
  \/ \E r \in Reqs, t \in Types : WriteSettles(r, t, FALSE)
  \/ \E r \in Reqs : SyncFinishStart(r, TRUE)
  \/ \E r \in Reqs : SyncGenerate(r)
  \/ \E r \in Reqs : SyncFinishEnd(r)
  \/ QueueError("ECONNREFUSED")

SpecScenarios == Init /\ [][NextScenarios]_vars

\* one request, list reads and deletions of the record it stores
NextDelete ==
  \/ \E t \in Types : Upload(1, t, ExampleFile)
  \/ Steps
  \/ BackendUp
  \/ QueueError("ECONNREFUSED")
  \/ RedisConnect
  \/ \E t \in Types : ListRead(t, "1")
  \/ \E t \in Types : DeletePatient(t, "p1")

SpecDelete == Init /\ [][NextDelete]_vars

\* the files of every content of up to MaxLines lines
TextFiles == {TextFile(text) : text \in SeqsUpTo(Lines, MaxLines)}

\* one request with or without a file, over the files written out line by
\* line
NextValidate ==
  \/ \E t \in Types, f \in TextFiles : Upload(1, t, f)
  \/ \E t \in Types : UploadNoFile(1, t)
  \/ Steps
  \/ BackendUp
  \/ QueueError("ECONNREFUSED")

SpecValidate == Init /\ [][NextValidate]_vars

\* one request, with the reads that fill the cache: the first page of each
\* list and the aggregates
NextCache ==
  \/ \E t \in Types, f \in CacheFiles : Upload(1, t, f)
  \/ Pipeline
  \/ \E t \in Types : ListRead(t, "1")
  \/ \E key \in AggregateKeys : AggregateRead(key)

SpecCache == Init /\ [][NextCache]_vars

\* one maternal request, the maternal list reads and the clock
NextTime ==
  \/ \E f \in CacheFiles : Upload(1, "maternal", f)
  \/ Pipeline
  \/ \E page \in ListPages : ListRead("maternal", page)
  \/ Tick

SpecTime == Init /\ [][NextTime]_vars

(***************************************************************************)
(* Properties.                                                             *)
(***************************************************************************)
\* the batches that have returned a summary: the synchronous response, the
\* value of a completed job
SyncDone(r) == req[r].pc = "done" /\ req[r].resp.kind = "summary"

JobDone(r) == req[r].job = "completed"

Counts(summary) ==
  <<summary.recordsProcessed, summary.recordsSuccess, summary.recordsFailed>>

Conserved(summary, rows) ==
  /\ summary.recordsProcessed = Len(rows)
  /\ summary.recordsSuccess + summary.recordsFailed = summary.recordsProcessed
  /\ 0 <= summary.recordsSuccess
  /\ summary.recordsSuccess <= summary.recordsProcessed
  /\ 0 <= summary.recordsFailed

\* C1: every summary returned by either path has
\* recordsSuccess + recordsFailed = recordsProcessed and
\* 0 <= recordsSuccess <= recordsProcessed, whatever mix of valid rows, rows
\* missing fields and rows whose scorer, store or progress call raises the
\* file holds.
C1_Conservation ==
  \A r \in Reqs :
    /\ SyncDone(r) => Conserved(req[r].resp.body, req[r].file.rows)
    /\ JobDone(r) => Conserved(req[r].result, req[r].file.rows)

\* a completed job over a file with a valid row, a row whose store call
\* raises and nothing else: one success, one failure
C1_Witness ==
  \E r \in Reqs :
    /\ JobDone(r)
    /\ req[r].file.rows = <<RowProgressThrows, RowStoreThrows>>
    /\ Counts(req[r].result) = <<2, 1, 1>>

\* C3: over the same file with the same scorer and store behaviour the two
\* paths report the same recordsProcessed, recordsSuccess and recordsFailed:
\* the summary a batch returned on one path carries the counts the other
\* path's loop arrives at over that file.
C3_SameCounts ==
  \A r \in Reqs :
    LET q == req[r]
        bySync == SyncSummary(q.file.rows,
                              SyncLoop(q.type, q.file.rows, 1, NewAcc(EmptyStore), 0))
        byJob == JobSummary(q.file.rows,
                            JobLoop(q.type, q.file.rows, 1, NewAcc(EmptyStore), 0))
    IN /\ SyncDone(r) => Counts(q.resp.body) = Counts(byJob)
       /\ JobDone(r) => Counts(q.result) = Counts(bySync)

\* a completed job whose file has a row on which job.progress raises, a call
\* the synchronous loop does not make
C3_Witness ==
  \E r \in Reqs :
    /\ JobDone(r)
    /\ req[r].file.rows = <<RowProgressThrows, RowNoName>>
    /\ req[r].result.recordsSuccess = 1

\* a row without one of the required cells: patient_id, name, age and
\* risk_factors for a maternal row; child_id, name and risk_factors for a
\* pediatric one
LacksField(type, row) ==
  \/ row.id = ""
  \/ row.name = ""
  \/ row.risk_factors = <<>>
  \/ type = "maternal" /\ row.age = ""

ExpectedMessage(type, row) ==
  <<"Missing required fields for",
    IF type = "maternal" THEN "patient" ELSE "child",
    IF row.id = "" THEN "unknown" ELSE row.id>>

RECURSIVE ExpectedMissing(_, _, _)
ExpectedMissing(type, rows, n) ==
  IF n = 0 THEN <<>>
  ELSE IF LacksField(type, rows[n])
  THEN Append(ExpectedMissing(type, rows, n - 1), ExpectedMessage(type, rows[n]))
  ELSE ExpectedMissing(type, rows, n - 1)

\* the rows among the first n that are complete and on which neither the
\* scorer nor the store raises
Storable(type, rows, n) ==
  {j \in 1..n : /\ ~LacksField(type, rows[j])
                /\ ~(NeedsScorer(rows[j]) /\ rows[j].scorer = "throw")
                /\ rows[j].store = "ok"}

\* C10: a row missing a required field is counted as failed with the message
\* 'Missing required fields for patient|child <identity key or unknown>', is
\* not persisted, and never aborts the batch: while a loop runs and once it has
\* returned, the messages about missing fields are those of the incomplete
\* rows met so far, in order; every other row met so far that raised nothing
\* is counted as a success and written; no incomplete row reaches the store;
\* and a returned summary covers every row of the file.
C10_MissingFieldRow ==
  \A r \in Reqs :
    LET q == req[r]
        n == q.i - 1
        IsMissing(m) == m[1] = "Missing required fields for"
    IN (q.pc = "rows" \/ SyncDone(r) \/ q.job \in {"active", "completed"}) =>
         /\ SelectSeq(q.acc.errors, IsMissing) = ExpectedMissing(q.type, q.data, n)
         /\ q.acc.successCount = Cardinality(Storable(q.type, q.data, n))
         /\ patients[q.type].writes = q.acc.successCount
         /\ \A k \in DOMAIN patients[q.type].recs :
              \E j \in Storable(q.type, q.data, n) : q.data[j].id = k
         /\ (SyncDone(r) \/ JobDone(r)) => n = Len(q.file.rows) /\ q.data = q.file.rows
         /\ SyncDone(r) =>
              q.resp.body.recordsFailed
                >= Len(ExpectedMissing(q.type, q.data, Len(q.data)))
         /\ JobDone(r) =>
              q.result.recordsFailed
                >= Len(ExpectedMissing(q.type, q.data, Len(q.data)))

\* the three-row maternal file whose second row lacks patient_id, answered
\* synchronously: 3 processed, 2 succeeded, 1 failed, the one message
C10_Witness ==
  \E r \in Reqs :
    /\ SyncDone(r)
    /\ req[r].type = "maternal"
    /\ req[r].file = ExampleFile
    /\ req[r].resp.body =
         [success |-> TRUE, recordsProcessed |-> 3, recordsSuccess |-> 2,
          recordsFailed |-> 1,
          errors |-> [defined |-> TRUE,
                      list |-> << <<"Missing required fields for", "patient", "unknown">> >>]]

\* C2: a submission made while the queue backend is down is processed
\* synchronously and answered with a summary, never with a jobId and never
\* with an error caused by the queue being unavailable, wherever the
\* submission falls relative to the queue's 'error' event.
C2_SyncWhenQueueDown ==
  \A r \in Reqs :
    (req[r].pc = "done" /\ req[r].downAtSubmit) =>
      /\ req[r].resp.kind # "jobId"
      /\ ~(req[r].resp.kind = "error" /\ req[r].resp.body.cause = "add")

\* the errors a job's run can end with: the file cannot be read, the parser
\* reports an error
RunErrors == {"ENOENT", "parse"}

RunsBounded ==
  \A r \in Reqs :
    /\ req[r].runs <= Attempts
    /\ req[r].attemptsMade <= req[r].runs
    /\ req[r].job = "failed" =>
         /\ req[r].runs = Attempts
         /\ req[r].attemptsMade = Attempts
         /\ req[r].failedReason \in RunErrors

FailedIsFinal ==
  \A r \in Reqs :
    /\ req[r].job = "failed" =>
         /\ req'[r].job = "failed"
         /\ req'[r].runs = req[r].runs
         /\ req'[r].failedReason = req[r].failedReason
    /\ (req[r].job # "failed" /\ req'[r].job = "failed") =>
         req'[r].failedReason = IF r \in files THEN "parse" ELSE "ENOENT"

Ended(r) ==
  \/ SyncDone(r)
  \/ JobDone(r)
  \/ req[r].pc = "done" /\ req[r].resp.kind = "error" /\ req[r].hasFile
  \/ req[r].attemptsMade > 0

\* the entries the handlers write to the log
HandlerMessages ==
  {"Error validating uploaded file", "Error processing CSV", "CSV upload queued",
   "Processing CSV synchronously", "Error processing CSV job", "Processing CSV file",
   "CSV processing completed"}

\* there is an entry about the failed deletion
DeletionFailureLogged(r) == req[r].log \ HandlerMessages # {}

\* a failed deletion changed nothing: a loop that started ends with its
\* summary, and the errors answered or attached are those of the queue, the
\* read, the parser and upload validation
OutcomeKept(r) ==
  LET q == req[r] IN
  /\ (q.number > 0 /\ q.pc = "done" /\ q.job = "none") =>
       q.resp.status = 200 /\ q.resp.kind = "summary"
  /\ (q.number > 0 /\ q.job # "none") => q.job \in {"active", "completed"}
  /\ q.resp.kind = "error" =>
       q.resp.body.cause \in {"validation", "add", "read or parse"}
  /\ q.attemptsMade > 0 => q.failedReason \in RunErrors

\* C8 as amended: on both paths, when processing ends with a summary or with
\* a batch-level error, deletion of the temporary file has been attempted; a
\* failure of that deletion is swallowed without a log entry and is never
\* re-raised, so the outcome is the one a successful deletion gives.
C8_DeletionAttemptedFailureSwallowed ==
  \A r \in Reqs :
    /\ Ended(r) => req[r].unlinkTried
    /\ ~DeletionFailureLogged(r)
    /\ OutcomeKept(r)

\* a synchronous batch that answered its summary although the deletion failed
C8_Witness ==
  \E r \in Reqs :
    SyncDone(r) /\ req[r].unlinkFailed /\ r \in files /\ req[r].resp.status = 200

\* C8: when processing ends, deletion of the temporary file has been
\* attempted, and a failure of that deletion is logged and never re-raised.
C8_DeletionFailureLogged ==
  \A r \in Reqs :
    Ended(r) =>
      /\ req[r].unlinkTried
      /\ req[r].unlinkFailed => DeletionFailureLogged(r)
      /\ OutcomeKept(r)

\* the terminal states of a submission: answered, and its job, if any,
\* completed or failed
Terminal(r) ==
  req[r].pc = "done" /\ req[r].job \in {"none", "completed", "failed"}

World ==
  [patients |-> patients, scenarios |-> scenarios, resources |-> resources,
   cache |-> cacheStore]

\* C4: from the same store and cache and over the same file, a batch run on
\* the queued path and the same batch run on the synchronous path end in the
\* same stored records, derived data and cache contents.
C4_PathIndependent ==
  \A r \in Reqs :
    LET q == req[r] IN
    (q.pc = "handler" /\ r \in files /\ q.file.parses) =>
      SyncBatch(World, q.type, q.file.rows, clock, redisAvailable, backendUp)
        = JobBatch(World, q.type, q.file.rows, clock, redisAvailable, backendUp)

\* the keys a batch of a type makes stale: the list pages of the type and
\* the three aggregates
Dependent(type, key) ==
  \/ key[1] = "patients" /\ key[2] = type
  \/ key \in {<<"dashboard", "stats">>, <<"analytics", "insights">>,
              <<"analytics", "trends">>}

\* C5: after a batch of a type has completed on either path with at least
\* one successful upsert and the cache backend available, no list key of that
\* type and no aggregate key that was cached before the batch is still cached.
C5_InvalidatedAfterBatch ==
  \A r \in Reqs :
    LET q == req[r] IN
    ((SyncDone(r) \/ JobDone(r)) /\ q.acc.successCount >= 1 /\ q.cacheUpAtDone) =>
      \A k \in DOMAIN cacheStore :
        Dependent(q.type, k) => cacheStore[k].epoch >= q.number

\* what a read of a maternal list page is answered with now
MaternalAnswer(page) ==
  ListAnswer(cacheStore, patients["maternal"], "maternal", page, redisAvailable,
             backendUp)

\* C6: after a batch has written maternal records, a read of a maternal list
\* key is answered either from the store, with the batch's writes in it, or
\* with a cached response stored no more than 300 s before the read, whether
\* or not the invalidation ran.
C6_StalenessBounded ==
  \A r \in Reqs :
    LET q == req[r] IN
    ((SyncDone(r) \/ JobDone(r)) /\ q.type = "maternal" /\ q.acc.successCount >= 1) =>
      \A page \in ListPages :
        LET answer == MaternalAnswer(page) IN
        /\ answer.src = "cache" =>
             \/ answer.age <= 300
             \/ answer.val.writes >= q.doneWrites
        /\ answer.src = "store" =>
             /\ answer.val.writes >= q.doneWrites
             /\ page = "1" => answer.val.data = patients["maternal"].recs

\* a read answered from the cache with a response older than the batch that
\* completed since
C6_Witness ==
  \E r \in Reqs :
    /\ SyncDone(r) \/ JobDone(r)
    /\ req[r].type = "maternal"
    /\ req[r].acc.successCount >= 1
    /\ MaternalAnswer("1").src = "cache"
    /\ MaternalAnswer("1").age >= 2 * TickSeconds
    /\ MaternalAnswer("1").val.writes < req[r].doneWrites

\* both cells of a row are supplied
Supplied(row) == row.risk_score # "" /\ row.risk_level # ""

\* C11: for rows passing validation, the scorer is never invoked for a row
\* that supplies both risk_score and risk_level, and a row missing either is
\* persisted with the score and level the scorer answered (its prediction or
\* its fallback), never with the defaults computed from the cells: every
\* scorer call of a run is for a row lacking a cell, and right after a row
\* lacking a cell has been written the stored record carries the scorer's
\* answer for it.
C11_ScorerOnlyWhenNeeded ==
  \A r \in Reqs :
    LET q == req[r]
        n == q.i - 1
    IN (q.pc = "rows" \/ SyncDone(r) \/ q.job \in {"active", "completed"}) =>
         /\ \A k \in DOMAIN q.acc.calls :
              q.acc.calls[k].op = "predict" => ~Supplied(q.acc.calls[k].row)
         /\ (n \in Storable(q.type, q.data, n) /\ ~Supplied(q.data[n])) =>
              LET row == q.data[n]
                  rec == patients[q.type].recs[row.id]
              IN /\ \E k \in DOMAIN q.acc.calls :
                      q.acc.calls[k] = [op |-> "predict", row |-> row]
                 /\ rec.riskScore = Prediction(row.scorer).riskScore
                 /\ rec.riskLevel = Prediction(row.scorer).riskLevel

\* the file with both cells, one cell and no cell has been ingested by a job:
\* two scorer calls, and the row with a score but no level carries the
\* prediction
C11_Witness ==
  \E r \in Reqs :
    /\ JobDone(r)
    /\ req[r].file = ScoredFile
    /\ Cardinality({k \in DOMAIN req[r].acc.calls :
                      req[r].acc.calls[k].op = "predict"}) = 2
    /\ patients[req[r].type].recs["p2"].riskScore = 72

\* every row of the file is valid, has neither score nor level, and meets a
\* scorer whose model fails, with the store and the progress update working
AllOnFallback(type, rows) ==
  /\ rows # <<>>
  /\ \A j \in DOMAIN rows :
      /\ ~LacksField(type, rows[j])
      /\ rows[j].risk_score = "" /\ rows[j].risk_level = ""
      /\ rows[j].scorer = "fallback"
      /\ rows[j].store = "ok" /\ rows[j].progress = "ok"

\* every row of the file is stored with the fallback's score and level
StoredWithFallback(type, rows) ==
  \A j \in DOMAIN rows :
    /\ rows[j].id \in DOMAIN patients[type].recs
    /\ patients[type].recs[rows[j].id].riskScore = 50
    /\ patients[type].recs[rows[j].id].riskLevel = "medium"

RowCalls(type, row, queued) ==
  IF LacksField(type, row) THEN <<>>
  ELSE LET predict == IF Supplied(row) THEN <<>> ELSE <<[op |-> "predict", row |-> row]>>
           raised == ~Supplied(row) /\ row.scorer = "throw"
           upsert == IF raised THEN <<>> ELSE <<[op |-> "upsert", row |-> row]>>
           progress == IF queued /\ ~raised /\ row.store = "ok"
                       THEN <<[op |-> "progress", row |-> row]>> ELSE <<>>
       IN predict \o upsert \o progress

\* the calls of the first n rows, row after row in file order
RECURSIVE ExpectedCalls(_, _, _, _)
ExpectedCalls(type, rows, n, queued) ==
  IF n = 0 THEN <<>>
  ELSE ExpectedCalls(type, rows, n - 1, queued) \o RowCalls(type, rows[n], queued)

\* C16: within one batch the rows are processed strictly one after another
\* in file order: at every point of a run the scorer, store and progress
\* calls made so far are those of the first rows of the file, each row's
\* calls complete before the next row's begin, and a finished run has gone
\* through every row.
C16_RowsInFileOrder ==
  \A r \in Reqs :
    LET q == req[r]
        n == q.i - 1
    IN /\ (q.pc = "rows" \/ SyncDone(r)) =>
            q.acc.calls = ExpectedCalls(q.type, q.data, n, FALSE)
       /\ q.job \in {"active", "completed"} =>
            q.acc.calls = ExpectedCalls(q.type, q.data, n, TRUE)
       /\ (SyncDone(r) \/ JobDone(r)) => n = Len(q.file.rows)

\* a completed job over the three-row file with two predicted rows: eight
\* calls, the last one the progress update of the third row
C16_Witness ==
  \E r \in Reqs :
    /\ JobDone(r)
    /\ req[r].file = ScoredFile
    /\ Len(req[r].acc.calls) = 8
    /\ req[r].acc.calls[8] = [op |-> "progress", row |-> RowPredicted]

\* the last of the first n rows that is written under key k, 0 if none
LastWritten(type, rows, n, k) ==
  LET js == {j \in Storable(type, rows, n) : rows[j].id = k}
  IN IF js = {} THEN 0 ELSE CHOOSE j \in js : \A h \in js : h <= j

\* C17: when a batch holds several valid rows with the same identity key,
\* the store ends with exactly one record for that key, built from the last
\* such row in file order: during and after a run over an empty store, the
\* keys stored are the keys of the rows written so far, one record each, and
\* each record is the one built from the last row written under its key.
C17_LastRowWins ==
  \A r \in Reqs :
    LET q == req[r]
        n == q.i - 1
        recs == patients[q.type].recs
    IN (q.pc = "rows" \/ SyncDone(r) \/ q.job \in {"active", "completed"}) =>
         /\ DOMAIN recs = {q.data[j].id : j \in Storable(q.type, q.data, n)}
         /\ \A k \in DOMAIN recs :
              /\ recs[k].key = k
              /\ recs[k] = BuildRecord(q.type, q.data[LastWritten(q.type, q.data, n, k)],
                                      clock)

\* a finished synchronous run over two valid rows for p1, the first with its
\* own score and one factor, the second predicted with two factors: the one
\* record is the second row's
C17_Witness ==
  \E r \in Reqs :
    /\ SyncDone(r)
    /\ req[r].file.rows = <<RowExplicit, RowPredicted>>
    /\ DOMAIN patients[req[r].type].recs = {"p1"}
    /\ patients[req[r].type].recs["p1"].riskScore = 72
    /\ patients[req[r].type].recs["p1"].riskFactors = <<"htn", "dm">>
    /\ patients[req[r].type].writes = 2

\* list holds the first entries of errors, at most ten of them
FirstTen(list, errors) ==
  /\ Len(list) <= 10
  /\ Len(list) = (IF Len(errors) <= 10 THEN Len(errors) ELSE 10)
  /\ \A k \in DOMAIN list : list[k] = errors[k]

\* the counts of a summary are those of the rows, however many failed
TrueCounts(summary, type, rows) ==
  Counts(summary) =
    <<Len(rows), Cardinality(Storable(type, rows, Len(rows))),
      Len(rows) - Cardinality(Storable(type, rows, Len(rows)))>>

\* C18: the errors list of a returned summary holds at most 10 entries, the
\* first 10 errors in row order, and the cap changes no count: recordsFailed
\* is the number of rows that failed even when more than 10 did.
C18_ErrorsCapped ==
  \A r \in Reqs :
    LET q == req[r] IN
    /\ SyncDone(r) =>
         /\ FirstTen(q.resp.body.errors.list, q.acc.errors)
         /\ q.resp.body.errors.defined = (q.acc.errors # <<>>)
         /\ TrueCounts(q.resp.body, q.type, q.file.rows)
    /\ JobDone(r) =>
         /\ FirstTen(q.result.errors.list, q.acc.errors)
         /\ TrueCounts(q.result, q.type, q.file.rows)
    /\ (SyncDone(r) \/ JobDone(r)) =>
         SelectSeq(q.acc.errors, LAMBDA m : m[1] = "Missing required fields for")
           = ExpectedMissing(q.type, q.file.rows, Len(q.file.rows))

\* a completed job over the file with twelve failing rows: 13 processed,
\* 1 succeeded, 12 failed, ten messages, the tenth about the tenth failing row
C18_Witness ==
  \E r \in Reqs :
    /\ JobDone(r)
    /\ req[r].file = ManyFailuresFile
    /\ Counts(req[r].result) = <<13, 1, 12>>
    /\ Len(req[r].acc.errors) = 12
    /\ Len(req[r].result.errors.list) = 10
    /\ req[r].result.errors.list[10] = ExpectedMessage(req[r].type, FailRow("f10"))

\* C13: the progress of a job never decreases over the job's life, re-runs
\* after a failed attempt or a stall included (it is never below the highest
\* value reported so far); after each processed row it equals
\* successCount / totalRows * 100; it stays within 0..100; and it is 100 only
\* at the successful end of a run that wrote every row.
C13_ProgressMonotonic ==
  \A r \in Reqs :
    LET q == req[r]
        p == q.acc.progress
    IN q.job # "none" =>
         /\ ~FracLess(p, q.peak)
         /\ 0 <= p.num /\ p.num <= 100 * p.den
         /\ (q.job = "active" /\ ~q.reading /\ q.i > 1) =>
              p.num * Len(q.data) = q.acc.successCount * 100 * p.den
         /\ p.num = 100 * p.den =>
              /\ q.job \in {"active", "completed"}
              /\ q.i > Len(q.data)
              /\ q.acc.successCount = Len(q.data)

JobEnded(r) == req[r].job \in {"completed", "failed"}

\* a job leaves the active state only as completed, failed or waiting again,
\* a stall is recorded on the job and logged, and nothing takes a job that has
\* not ended out of the queue
NeverDropped ==
  \A r \in Reqs :
    /\ (req[r].job = "active" /\ req'[r].job # "active") =>
         /\ req'[r].job \in {"completed", "failed", "waiting"}
         /\ (req'[r].job = "waiting" /\ req'[r].attemptsMade = req[r].attemptsMade) =>
              /\ req'[r].stalledCount = req[r].stalledCount + 1
              /\ "CSV processing job stalled" \in req'[r].log
         /\ (req'[r].job = "failed" /\ req'[r].attemptsMade = req[r].attemptsMade) =>
              /\ req'[r].failedReason = "job stalled more than allowable limit"
              /\ "CSV processing job failed" \in req'[r].log
    /\ req[r].job = "waiting" => req'[r].job \in {"waiting", "active"}

\* C19: under fair scheduling every enqueued job eventually reaches
\* completed or failed; nothing cancels a job; and a stalled active job is
\* put back to wait or failed with the stall as its reason, never dropped.
C19_EveryJobEnds ==
  /\ \A r \in Reqs : (req[r].job \in {"waiting", "active"}) ~> JobEnded(r)
  /\ [][NeverDropped]_vars

\* a job that stalled once, was run again and completed
C19_Witness ==
  \E r \in Reqs :
    /\ JobDone(r)
    /\ req[r].stalledCount = 1
    /\ req[r].runs = 2
    /\ "CSV processing job stalled" \in req[r].log

JobStates == {"none", "waiting", "active", "completed", "failed"}

\* the result exists only on a completed job and the retry count stays
\* within 0..3
JobShape ==
  \A r \in Reqs :
    /\ req[r].job \in JobStates
    /\ req[r].result # [none |-> TRUE] => req[r].job = "completed"
    /\ req[r].job = "completed" => req[r].result # [none |-> TRUE]
    /\ req[r].attemptsMade \in 0..3
    /\ req[r].job = "failed" => req[r].failedReason # ""

\* the edges of the job state machine
JobEdges ==
  \A r \in Reqs :
    req'[r].job # req[r].job =>
      \/ req[r].job = "none" /\ req'[r].job = "waiting"
      \/ req[r].job = "waiting" /\ req'[r].job = "active"
      \/ req[r].job = "active" /\ req'[r].job = "completed"
      \/ /\ req[r].job = "active" /\ req'[r].job = "failed"
         /\ \/ req'[r].attemptsMade = 3
            \/ req[r].stalledCount = MaxStalledCount
      \/ /\ req[r].job = "active" /\ req'[r].job = "waiting"
         /\ \/ req'[r].attemptsMade = req[r].attemptsMade + 1 /\ req'[r].attemptsMade < 3
            \/ req'[r].stalledCount = req[r].stalledCount + 1

BatchOver(r) == (SyncDone(r) \/ JobDone(r)) /\ Settled(r)

\* the keys the batch of request r wrote
KeysWritten(r) ==
  {req[r].file.rows[j].id :
     j \in Storable(req[r].type, req[r].file.rows, Len(req[r].file.rows))}

\* the record the batch of request r wrote last under key k
WrittenBy(r, k) ==
  BuildRecord(req[r].type,
              req[r].file.rows[LastWritten(req[r].type, req[r].file.rows,
                                           Len(req[r].file.rows), k)],
              clock)

\* C15: when two batches run concurrently (two jobs, or a job and a
\* synchronous upload) and each upserts a record with the same identity key,
\* then after both have finished the store, in memory and in its file, holds
\* exactly one record for that key, equal in full to the record written by
\* one of them: no mix of both writes and no lost or duplicated key.
C15_OneWholeRecord ==
  \A a, b \in Reqs :
    (a # b /\ BatchOver(a) /\ BatchOver(b) /\ req[a].type = req[b].type) =>
      \A k \in KeysWritten(a) \cap KeysWritten(b) :
        LET t == req[a].type
            whole == {WrittenBy(a, k), WrittenBy(b, k)}
        IN /\ k \in DOMAIN patients[t].recs
           /\ patients[t].recs[k] \in whole
           /\ disk[t].content.parses
           /\ k \in DOMAIN disk[t].content.recs
           /\ disk[t].content.recs[k] \in whole

\* recordsSuccess of the summary the batch of request r returned
RecordsSuccess(r) ==
  IF SyncDone(r) THEN req[r].resp.body.recordsSuccess ELSE req[r].result.recordsSuccess

\* b ingested, right after a and after a had finished, the file a ingested
Reingested(a, b) ==
  /\ b = a + 1
  /\ BatchOver(a) /\ BatchOver(b)
  /\ req[a].type = req[b].type /\ req[a].file = req[b].file
  /\ req[a].doneAt < req[b].number

\* the last row of the file written under key k states its last_updated
Dated(r, k) ==
  req[r].file.rows[LastWritten(req[r].type, req[r].file.rows,
                               Len(req[r].file.rows), k)].last_updated # ""

\* C14 as amended: ingesting the same file twice in succession leaves the
\* stored records as they were after the first ingestion - the same keys, one
\* record each, the same field values - except for lastUpdated, which for a
\* row without a last_updated cell is the time of the ingestion that wrote it
\* last; and the second run's recordsSuccess equals the first run's.
C14_SameRecordsButLastUpdated ==
  \A a, b \in Reqs :
    Reingested(a, b) =>
      /\ DOMAIN req[b].doneRecs = DOMAIN req[a].doneRecs
      /\ KeysWritten(a) \subseteq DOMAIN req[a].doneRecs
      /\ \A k \in DOMAIN req[a].doneRecs :
           /\ [req[b].doneRecs[k] EXCEPT !.lastUpdated = req[a].doneRecs[k].lastUpdated]
                = req[a].doneRecs[k]
           /\ (k \notin KeysWritten(a) \/ Dated(a, k)) =>
                req[b].doneRecs[k].lastUpdated = req[a].doneRecs[k].lastUpdated
           /\ (k \in KeysWritten(a) /\ ~Dated(a, k)) =>
                req[b].doneRecs[k].lastUpdated >= req[a].doneRecs[k].lastUpdated
      /\ RecordsSuccess(b) = RecordsSuccess(a)

\* the file with a dated and an undated row has been ingested twice, some
\* time apart: the dated record is as it was, the undated one carries the
\* time of the second ingestion
C14_Witness ==
  \E a, b \in Reqs :
    /\ Reingested(a, b)
    /\ req[a].file = CsvFile(<<RowDated, RowScoreOnly>>)
    /\ req[b].doneRecs["p1"] = req[a].doneRecs["p1"]
    /\ req[b].doneRecs["p2"].lastUpdated > req[a].doneRecs["p2"].lastUpdated
    /\ RecordsSuccess(b) = 2

\* C14: ingesting the same file twice in succession leaves the stored
\* records identical to the state after the first ingestion (same keys, no
\* duplicates, same field values), and the second run's recordsSuccess
\* equals the first run's.
C14_Idempotent ==
  \A a, b \in Reqs :
    Reingested(a, b) =>
      /\ req[b].doneRecs = req[a].doneRecs
      /\ RecordsSuccess(b) = RecordsSuccess(a)

(***************************************************************************)
(* Fatal errors of a batch.                                                *)
(***************************************************************************)
\* the uploaded file of request r cannot be parsed: the parse call throws, or
\* the parser reports rows it could not tokenize
ParseFails(r) ==
  /\ req[r].hasFile
  /\ req[r].file.lines >= 2
  /\ req[r].file.delim
  /\ ~req[r].file.parses \/ req[r].file.parseErrors

\* C21: a batch whose file cannot be parsed is aborted before any row is
\* processed: the batch holds no parsed row, it has called neither the scorer
\* nor the store for any row, and the store holds no record.
C21_ParseFailureAborts ==
  \A r \in Reqs :
    ParseFails(r) =>
      /\ req[r].data = <<>>
      /\ req[r].acc.calls = <<>>
      /\ req[r].acc.successCount = 0
      /\ patients[req[r].type] = EmptyStore

CountFields == {"recordsProcessed", "recordsSuccess", "recordsFailed"}

\* the row loop of request r was entered: the file was read and parsed
LoopEntered(r) == req[r].number > 0

\* C22: a batch whose row loop ran to its end answers with the three counts,
\* also when some or all of its rows failed (the synchronous response and the
\* value a completed job returns); a batch that ended on a fatal error
\* carries one error message and no counts (the error response of a request
\* that never entered its row loop, and a failed job's reason with no result).
C22_CountsOrOneError ==
  \A r \in Reqs :
    /\ (req[r].pc = "done" /\ req[r].resp.kind = "summary") =>
         /\ LoopEntered(r)
         /\ CountFields \subseteq DOMAIN req[r].resp.body
         /\ "error" \notin DOMAIN req[r].resp.body
    /\ (req[r].pc = "done" /\ req[r].job = "none" /\ LoopEntered(r)) =>
         req[r].resp.kind = "summary"
    /\ req[r].job = "completed" =>
         /\ LoopEntered(r)
         /\ CountFields \subseteq DOMAIN req[r].result
    /\ (req[r].pc = "done" /\ req[r].resp.kind = "error") =>
         /\ ~LoopEntered(r)
         /\ "error" \in DOMAIN req[r].resp.body
         /\ req[r].resp.body.error # ""
         /\ DOMAIN req[r].resp.body \cap CountFields = {}
    /\ req[r].job = "failed" =>
         /\ req[r].failedReason # ""
         /\ req[r].result = [none |-> TRUE]

\* a synchronous batch of two rows that both failed, answered with counts
C22_Witness ==
  \E r \in Reqs :
    /\ SyncDone(r)
    /\ Len(req[r].file.rows) = 2
    /\ req[r].resp.body.recordsProcessed = 2
    /\ req[r].resp.body.recordsSuccess = 0
    /\ req[r].resp.body.recordsFailed = 2

\* the upload of request r was refused by fileFilter
Refused(r) == "Invalid file type attempted" \in req[r].log

\* the input of request r is malformed and the request path itself meets
\* that: no file part, a type that is not allowed, a file without a data row
\* or without a delimiter, or, when the file is parsed in the request, a file
\* that cannot be parsed
MalformedInput(r) ==
  \/ Refused(r)
  \/ ~req[r].hasFile
  \/ req[r].file.lines < 2
  \/ ~req[r].file.delim
  \/ ParseFails(r) /\ "Processing CSV synchronously" \in req[r].log

\* the request failed to read its file back from the scratch directory
ReadFailed(r) ==
  \/ "Error validating uploaded file" \in req[r].log
  \/ "Processing CSV synchronously" \in req[r].log /\ req[r].file.parses
       /\ req[r].resp.kind = "error"

\* C23: an answered upload has status 200 when its batch was dispatched to
\* the queue or completed synchronously, and status 400 when its input was
\* malformed, a file that cannot be parsed and an upload of a type that is
\* not allowed included (reads of the stored file that fail aside).
C23_StatusByOutcome ==
  \A r \in Reqs :
    (req[r].pc = "done" /\ ~ReadFailed(r)) =>
      /\ req[r].resp.kind \in {"jobId", "summary"} => req[r].resp.status = 200
      /\ MalformedInput(r) => req[r].resp.status = 400

\* C24: an upload aborted by a batch-level error is answered with an error
\* text, and the answer carries the exception's message or stack only when
\* the environment is not production.
C24_DetailOnlyOutsideProduction ==
  \A r \in Reqs :
    (req[r].pc = "done" /\ req[r].resp.kind = "error") =>
      /\ req[r].resp.body.error # ""
      /\ req[r].resp.body.detail # "" => nodeEnv # "production"

(***************************************************************************)
(* Row-level errors.                                                       *)
(***************************************************************************)
\* a complete row on which the scorer, if called, answers
ReachesStore(type, row) ==
  /\ ~LacksField(type, row)
  /\ ~(NeedsScorer(row) /\ row.scorer = "throw")

\* C25: a store write error on a row fails that row only: an error naming the
\* row's identity key is recorded, the row is not counted as a success, the
\* rows after it are still handed to the scorer and the store as any other
\* row, and the batch ends with its summary (a completed job, a 200 answer),
\* not with a failure.
C25_StoreErrorFailsOnlyItsRow ==
  \A r \in Reqs :
    LET q == req[r]
        n == q.i - 1
    IN /\ (q.pc = "rows" \/ SyncDone(r) \/ q.job \in {"active", "completed"}) =>
            \A i \in 1..n :
              (ReachesStore(q.type, q.data[i]) /\ q.data[i].store = "throw") =>
                /\ \E e \in 1..Len(q.acc.errors) :
                     q.acc.errors[e] =
                       <<"Error processing", IF q.type = "maternal" THEN "patient" ELSE "child",
                         q.data[i].id, "store">>
                /\ q.acc.successCount = Cardinality(Storable(q.type, q.data, n))
                /\ q.acc.successCount <= n - 1
                /\ \A j \in (i + 1)..n :
                     ReachesStore(q.type, q.data[j]) =>
                       \E c \in 1..Len(q.acc.calls) :
                         q.acc.calls[c] = [op |-> "upsert", row |-> q.data[j]]
       /\ LoopEntered(r) =>
            /\ q.job # "failed"
            /\ q.pc = "done" => q.resp.status = 200
            /\ (SyncDone(r) \/ JobDone(r)) => n = Len(q.file.rows)

\* a completed job over a row whose store write raised followed by a valid
\* row: one failure naming p2, one success, and p1 is stored
C25_Witness ==
  \E r \in Reqs :
    /\ JobDone(r)
    /\ req[r].type = "maternal"
    /\ req[r].file.rows = <<RowStoreThrows, RowExplicit>>
    /\ Counts(req[r].result) = <<2, 1, 1>>
    /\ req[r].result.errors.list = << <<"Error processing", "patient", "p2", "store">> >>
    /\ DOMAIN patients["maternal"].recs = {"p1"}

(***************************************************************************)
(* The stored records.                                                     *)
(***************************************************************************)
RiskLevels == {"low", "medium", "high", "critical"}

\* C26: every record in the store has a non-empty identity key, a riskScore
\* that is an integer within 0..100, a riskLevel among low, medium, high and
\* critical, and at least one risk factor, whether its score and level were
\* read from the row or answered by the scorer.
C26_StoredRecordsValid ==
  \A t \in Types :
    \A k \in DOMAIN patients[t].recs :
      LET rec == patients[t].recs[k]
      IN /\ rec.key = k
         /\ k # ""
         /\ rec.riskScore \in 0..100
         /\ rec.riskLevel \in RiskLevels
         /\ rec.riskFactors # <<>>

\* the record stored for the row just written by request r
JustWritten(r) == patients[req[r].type].recs[req[r].data[req[r].i - 1].id]

\* the row just met by request r supplies both cells and has been written
WroteSupplied(r) ==
  /\ req[r].pc = "rows" \/ SyncDone(r) \/ req[r].job \in {"active", "completed"}
  /\ req[r].i - 1 \in Storable(req[r].type, req[r].data, req[r].i - 1)
  /\ Supplied(req[r].data[req[r].i - 1])

\* C27 as stated: a row that supplies both risk_score and risk_level is
\* persisted with exactly the supplied values: the score is the number its
\* cell states and the level is the text of its cell, nothing substituted or
\* defaulted.
C27_ExplicitPassedThrough ==
  \A r \in Reqs :
    WroteSupplied(r) =>
      LET row == req[r].data[req[r].i - 1]
      IN /\ ParseInt(row.risk_score) = Num(JustWritten(r).riskScore)
         /\ JustWritten(r).riskLevel = row.risk_level

\* C27, amended: a row that supplies both risk_score and risk_level is
\* persisted with the supplied values as the loop reads them, the score parsed
\* as an integer (0 when the cell is not a number) and the level in lower
\* case; the scorer is not called for the row and its answer is never
\* substituted.
C27_ExplicitWins ==
  \A r \in Reqs :
    WroteSupplied(r) =>
      LET row == req[r].data[req[r].i - 1]
          cell == ParseInt(row.risk_score)
      IN /\ JustWritten(r).riskScore = (IF cell.nan THEN 0 ELSE cell.n)
         /\ JustWritten(r).riskLevel = ToLowerCase(row.risk_level)
         /\ \A c \in DOMAIN req[r].acc.calls :
              req[r].acc.calls[c] # [op |-> "predict", row |-> row]

\* a row with score abc and level High has been written: stored as 0 and high
C27_Witness ==
  \E r \in Reqs :
    /\ WroteSupplied(r)
    /\ req[r].data[req[r].i - 1] = RowScoreNotNumber
    /\ JustWritten(r).riskScore = 0
    /\ JustWritten(r).riskLevel = "high"

\* C28: whenever the scorer is called for a row, the row holds the fields
\* the scorer needs for its record type: age and risk factors for a maternal
\* row; birth weight, gestation weeks and risk factors for a pediatric one.
C28_ScorerGetsRequiredFields ==
  \A r \in Reqs :
    \A c \in DOMAIN req[r].acc.calls :
      req[r].acc.calls[c].op = "predict" =>
        LET row == req[r].acc.calls[c].row
        IN /\ row.risk_factors # <<>>
           /\ req[r].type = "maternal" => row.age # ""
           /\ req[r].type = "pediatric" =>
                row.birth_weight # "" /\ row.gestation_weeks # ""

(***************************************************************************)
(* Dispatch.                                                               *)
(***************************************************************************)
\* request r reached the route handler and has been answered
Submitted(r) ==
  /\ req[r].pc = "done"
  /\ ~(req[r].resp.kind = "error" /\ req[r].resp.body.cause \in {"validation", "upload"})

\* the request path of r did nothing to the batch: no row loop, no call to the
\* scorer or the store, no deletion of the file
RequestPathIdle(r) ==
  /\ "Processing CSV synchronously" \notin req[r].log
  /\ req[r].runs = 0 =>
       /\ req[r].job = "waiting"
       /\ req[r].acc.calls = <<>>
       /\ req[r].number = 0
       /\ ~req[r].unlinkTried
       /\ r \in files

\* C29: a submission that finds the queue backend reachable is answered with
\* the identifier of the one job enqueued for it, and the request path itself
\* processes no row, makes no upsert and does not delete the file.
C29_EnqueuedWhenReachable ==
  \A r \in Reqs :
    (Submitted(r) /\ ~req[r].downAtSubmit) =>
      /\ req[r].resp.kind = "jobId"
      /\ req[r].resp.body.jobId = r
      /\ req[r].job # "none"
      /\ RequestPathIdle(r)

(***************************************************************************)
(* The cache without its backend.                                          *)
(***************************************************************************)
\* the cache cannot be used: the flag is down or the backend does not answer
CacheDown == ~(redisAvailable /\ backendUp)

\* C30: while the cache's backend is absent or failing, every cache
\* operation does nothing and none raises: a list read is answered from the
\* store, no step of the pipeline or of a read changes what the cache holds,
\* and a batch whose row loop has ended is answered with its summary, its
\* invalidation skipped.
C30_CacheFailuresTolerated ==
  [][CacheDown =>
       /\ \A t \in Types, page \in ListPages :
            ListAnswer(cacheStore, patients[t], t, page, redisAvailable, backendUp)
              = [src |-> "store", age |-> 0, val |-> ListResponse(patients[t], page)]
       /\ clock' = clock => cacheStore' = cacheStore
       /\ \A r \in Reqs :
            (req[r].pc = "rows" /\ req'[r].pc = "done") =>
              /\ req'[r].resp.kind = "summary"
              /\ req'[r].resp.status = 200
              /\ ~req'[r].cacheUpAtDone]_vars

\* a synchronous batch that stored a record has been answered while the
\* cache could not be used, and the list cached before it is still held
C30_Witness ==
  \E r \in Reqs :
    /\ SyncDone(r)
    /\ req[r].acc.successCount >= 1
    /\ ~req[r].cacheUpAtDone
    /\ CacheDown
    /\ ListKey(req[r].type, "1") \in DOMAIN cacheStore
    /\ cacheStore[ListKey(req[r].type, "1")].val.writes < req[r].doneWrites

(***************************************************************************)
(* C31: the backoff delays.                                                *)
(***************************************************************************)
\* s is an initial part of t
IsPrefix(s, t) == Len(s) <= Len(t) /\ \A i \in 1..Len(s) : s[i] = t[i]

\* C31 as stated: the delay before a failed job is retried starts at 2 s and
\* doubles with each attempt: 2 s before the second attempt, 4 s before the
\* third (req[r].delays holds the delays so far, in milliseconds).
C31_BackoffDoubles ==
  \A r \in Reqs : IsPrefix(req[r].delays, <<2000, 4000>>)

\* C31, amended: the delay before the retry that follows the n-th failure of
\* a job is (2^n - 1) * 2 s: 2 s before the second attempt, 6 s before the
\* third; there is no delay after the third failure.
C31_BackoffDelays ==
  \A r \in Reqs :
    /\ IsPrefix(req[r].delays, <<2000, 6000>>)
    /\ Len(req[r].delays) = (IF req[r].attemptsMade < Attempts
                             THEN req[r].attemptsMade ELSE Attempts - 1)

\* a job that has failed three times, after two delayed retries
C31_Witness ==
  \E r \in Reqs :
    /\ req[r].job = "failed"
    /\ req[r].attemptsMade = Attempts
    /\ Len(req[r].delays) = 2

(***************************************************************************)
(* C32: a queue construction that throws.                                  *)
(***************************************************************************)
\* C32: if constructing the Bull queue throws at startup, csvProcessingQueue
\* is null, the jobQueue module still finishes loading (the server runs), and
\* no upload after that is handed to the queue.
C32_LoadsWithoutQueue ==
  jobQueue.threw =>
    /\ csvProcessingQueue = "null"
    /\ jobQueue.loaded
    /\ \A r \in Reqs : req[r].pc # "adding" /\ req[r].job = "none"

(***************************************************************************)
(* C33: a cleared queue handle stays cleared.                              *)
(***************************************************************************)
\* error codes of the queue's connection other than ECONNREFUSED
OtherCodes == {"ETIMEDOUT", "ECONNRESET", "ENOTFOUND"}

\* request r leaves the route's branch on the handle in this step
Submits(r) == req[r].pc = "handler" /\ req'[r].pc # "handler"

\* C33: once csvProcessingQueue is null (after an ECONNREFUSED 'error' event
\* or a construction that threw) it is never set back to a queue; every
\* later submission takes the synchronous path, whether or not Redis is
\* reachable by then; and a queue error with any other code leaves the handle
\* as it is.
C33_NullHandleIsFinal ==
  [][/\ csvProcessingQueue = "null" => csvProcessingQueue' = "null"
     /\ jobQueue.threw => csvProcessingQueue = "null"
     /\ \A r \in Reqs :
          csvProcessingQueue = "null" /\ Submits(r) =>
            /\ "Processing CSV synchronously" \in req'[r].log
            /\ req'[r].pc \in {"rows", "done"}
            /\ req'[r].job = "none"
     /\ \A code \in OtherCodes :
          OnQueueError(csvProcessingQueue, code) = csvProcessingQueue]_vars

\* a batch submitted while Redis was reachable again has run synchronously,
\* the handle having been cleared before
C33_Witness ==
  \E r \in Reqs :
    /\ SyncDone(r)
    /\ ~req[r].downAtSubmit
    /\ backendUp
    /\ csvProcessingQueue = "null"

(***************************************************************************)
(* C34: error strings and failed rows.                                     *)
(***************************************************************************)
\* C34: for every completed batch the number of per-row error strings
\* recorded, before the cap of ten is applied, equals recordsFailed: a row
\* contributes an error string exactly when it is not counted in
\* recordsSuccess, on the queued path also when job.progress raises after the
\* row was stored.
C34_ErrorsMatchFailed ==
  \A r \in Reqs :
    /\ SyncDone(r) => Len(req[r].acc.errors) = req[r].resp.body.recordsFailed
    /\ JobDone(r) => Len(req[r].acc.errors) = req[r].result.recordsFailed

(***************************************************************************)
(* C35: a list read that interleaves with a synchronous batch.             *)
(***************************************************************************)
\* the cached list entries of the type of request r that were computed from
\* a store older than the one the batch of r left
StaleListKeys(r) ==
  {k \in DOMAIN cacheStore :
     /\ \E page \in ListPages : k = ListKey(req[r].type, page)
     /\ cacheStore[k].val.writes < req[r].doneWrites}

ScenarioIds == {"PS001", "PS002", "PS003"}

\* the number of stored scenarios with the identifier
Copies(id) == Cardinality({k \in DOMAIN scenarios : scenarios[k].scenarioId = id})

\* C36: policy scenarios are generated at most once: after any sequence or
\* interleaving of synchronous uploads the store holds at most one copy of
\* each of PS001, PS002 and PS003, and generatePolicyScenarios creates
\* nothing when a scenario exists already or when there are no patients.
C36_ScenariosOnce ==
  [][/\ \A id \in ScenarioIds : Copies(id) <= 1
     /\ \A k \in DOMAIN scenarios : scenarios[k].scenarioId \in ScenarioIds
     /\ (scenarios # <<>> \/ Present(patients) = {}) => ScenariosToCreate = <<>>
     /\ \A r \in Reqs :
          (req[r].pc = "rows" /\ req'[r].pc = "generating"
             /\ (scenarios # <<>> \/ Present(patients) = {})) =>
            scenarios' = scenarios /\ req'[r].gen = <<>>]_vars

\* the generation of the second request, begun while the first is still
\* creating its scenarios, has found one stored and creates nothing
C36_Witness ==
  /\ \A r \in 1..2 : req[r].pc = "generating" /\ req[r].acc.successCount = 1
  /\ req[1].gen # <<>>
  /\ req[2].gen = <<>>
  /\ Copies("PS001") = 1

(***************************************************************************)
(* C37: list reads after a deletion.                                       *)
(***************************************************************************)
\* C37: after DELETE /maternal/:id or DELETE /pediatric/:id has succeeded, a
\* list read of that type never returns the deleted record: no cached page
\* that contains it is served. A record leaves the store by a deletion only,
\* so the records a read returns are all in the store.
C37_DeletedNeverListed ==
  \A t \in Types, page \in ListPages :
    LET answer == ListAnswer(cacheStore, patients[t], t, page, redisAvailable, backendUp)
    IN \A id \in DOMAIN answer.val.data : id \in DOMAIN patients[t].recs

(***************************************************************************)
(* C38: what the invalidation step leaves alone.                           *)
(***************************************************************************)
OtherType(t) == IF t = "maternal" THEN "pediatric" ELSE "maternal"

\* request r ends its synchronous batch in this step
EndsBatch(r) == req[r].pc = "rows" /\ req'[r].pc = "done"

\* C38: the invalidation step of a maternal batch removes only keys that
\* match patients:maternal:* and the three aggregate keys: every cached
\* pediatric list key is still cached with the same value; and the same with
\* the types exchanged.
C38_OtherTypeUntouched ==
  [][\A r \in Reqs :
       EndsBatch(r) =>
         /\ DOMAIN cacheStore' \subseteq DOMAIN cacheStore
         /\ \A k \in DOMAIN cacheStore \ DOMAIN cacheStore' :
              \/ k[1] = "patients" /\ k[2] = req[r].type
              \/ k \in AggregateKeys
         /\ \A page \in ListPages :
              LET k == ListKey(OtherType(req[r].type), page) IN
              k \in DOMAIN cacheStore =>
                k \in DOMAIN cacheStore' /\ cacheStore'[k] = cacheStore[k]]_vars

\* a maternal batch has ended with the cache available and a pediatric page
\* cached before the batch began is still cached
C38_Witness ==
  \E r \in Reqs :
    /\ SyncDone(r)
    /\ req[r].type = "maternal"
    /\ req[r].cacheUpAtDone
    /\ redisAvailable /\ backendUp
    /\ ListKey("pediatric", "1") \in DOMAIN cacheStore
    /\ cacheStore[ListKey("pediatric", "1")].epoch < req[r].number
    /\ ListKey("maternal", "1") \notin DOMAIN cacheStore

(***************************************************************************)
(* C39: what validateUploadedFile lets through.                            *)
(***************************************************************************)
\* validateUploadedFile has dealt with request r
Validated(r) == req[r].pc \notin {"idle", "uploaded"}

\* it answered the request itself
RejectedByValidation(r) ==
  /\ req[r].pc = "done"
  /\ req[r].resp.kind = "error"
  /\ req[r].resp.body.cause = "validation"

\* it called next: the route handler has the request, or has had it
PassedOn(r) == Validated(r) /\ ~RejectedByValidation(r)

\* the content has two non-blank lines or more and the first of them holds a
\* comma or a semicolon
GoodText(text) ==
  LET idx == {i \in DOMAIN text : text[i] \notin {"", "  "}} IN
  /\ Cardinality(idx) >= 2
  /\ text[CHOOSE i \in idx : \A j \in idx : i <= j] \in {"a,b", "a;b"}

\* C39: validateUploadedFile passes the request on (calls next) exactly when
\* a file was uploaded, its content, once read, has at least two non-blank
\* lines and the first non-blank line contains a comma or a semicolon; on
\* every other outcome it answers with an error status without calling next,
\* and when a file had been written it first deletes it: it awaits fs.unlink,
\* after which the file is gone unless that call failed.
C39_PassesExactlyValidFiles ==
  \A r \in Reqs :
    Validated(r) =>
      /\ PassedOn(r) <=>
           /\ req[r].hasFile
           /\ "Error validating uploaded file" \notin req[r].log
           /\ GoodText(req[r].file.text)
      /\ RejectedByValidation(r) =>
           /\ req[r].resp.status \in {400, 500}
           /\ req[r].job = "none"
           /\ req[r].number = 0
           /\ req[r].log \subseteq {"Error validating uploaded file"}
           /\ req[r].hasFile =>
                /\ req[r].unlinkTried
                /\ r \notin files \/ req[r].unlinkFailed

\* a content with a blank first line and a header with semicolons has been
\* passed on to the route
C39_Witness ==
  \E r \in Reqs :
    /\ req[r].pc = "handler"
    /\ req[r].file.text = <<"  ", "a;b", "ab">>

====
